---- MODULE Spec2Model ----
(***************************************************************************)
(* The overdue-order / contact-SLA pipeline of the daily quality-control   *)
(* report (report_section_3.py): one run of get_section_3_report_data for  *)
(* a report date, against a RetailCRM order endpoint and a UIS call log.   *)
(*                                                                         *)
(* Instants are whole seconds in the fixed UTC+3 business timezone,        *)
(* counted from 00:00:00 of day 0; day 0 is a Monday, so date % 7 is       *)
(* Python's date.weekday().  Every instant the section parses comes from   *)
(* strptime with "%Y-%m-%d %H:%M:%S" and so is a whole second.             *)
(* A timestamp string is the tuple <<date, hh, mm, ss>> of its fields; a   *)
(* phone string is the sequence of its characters.                         *)
(***************************************************************************)
EXTENDS Integers, Sequences, FiniteSets, TLC

VARIABLES
    report_date_msk_date,           \* the report date handed to the section
    env,                            \* configuration variables that are set
    pc,                             \* position of the run
    method_idx,                     \* position in ORDER_METHOD_MAPPINGS
    all_orders,                     \* orders fetched so far, in fetch order
    orders_fetch_failed,            \* some get_orders_list call returned None
    uis_log,                        \* the call log the UIS service holds
    all_orders_unique,              \* list(orders_by_id.values())
    outgoing_calls_details,         \* parsed outbound calls
    order_idx,                      \* position in all_orders_unique
    overdue_count,
    total_relevant_orders,
    orders_in_work_time_count,
    orders_outside_work_time_count,
    overdue_details,
    outcomes,                       \* locals of each finished loop iteration
    report_output_lines,            \* the value the section returns
    uis_response,                   \* how the UIS request ended
    \* get_orders_list
    upstream_pages,                 \* the answer RetailCRM gives to each page
    page,                           \* the page number of the next request
    pages_requested,                \* params["page"] of the requests made
    orders_list_all_orders,         \* all_orders of get_orders_list
    orders_list_return,             \* what get_orders_list returned
    \* the date helpers
    date_argument,                  \* the date the helpers are called with
    next_working_day_start,         \* get_next_working_day_start_msk's value
    report_datetimes,               \* get_report_datetimes_msk's value
    working_datetimes,              \* get_working_datetimes_msk's value
    \* normalize_phone_number
    raw_phone_number,               \* the raw string
    normalized_once,                \* normalize_phone_number of it
    normalized_twice,               \* normalize_phone_number of that value
    \* main.py
    main_env,                       \* configuration variables that are set
    main_pc,                        \* position of the script
    section_calls,                  \* the section calls main() has made
    telegram_messages,              \* the messages delivered to the chat
    escaped_exception,              \* the exception that ended main(), if any
    main_report_date,               \* REPORT_DATE_MSK of main()
    \* one upstream request
    fetch_site,                     \* the requests.get / requests.post call
    upstream_behaviour,             \* what the upstream does with the request
    fetch_elapsed,                  \* seconds the request has been waiting
    fetch_state,                    \* waiting, or how the fetch ended
    \* split_message
    split_text,                     \* text of the outermost call
    split_limit,                    \* limit
    split_remainder,                \* text of the call being made
    split_chunks,                   \* the parts cut off so far, in order
    split_cuts,                     \* text and part of each call that cut
    split_depth,                    \* calls made so far
    split_state,                    \* called, returned or RecursionError
    \* send_telegram_message_async
    message_parts,                  \* split_message(text)
    send_idx,                       \* position of the for loop, from 1
    send_delivered,                 \* the parts the chat has received
    send_failed_at,                 \* position of the send that raised, or 0
    send_state,                     \* bot, loop, finally, returned or raised
    \* main(), statement by statement
    wall_clock,                     \* the instant it is, Moscow time
    server_utc_offset,              \* hours east of UTC of the server's zone
    run_pc,                         \* the statement main() is at
    run_report_date,                \* REPORT_DATE_MSK
    run_assembled,                  \* sections whose lines main() holds
    run_delivered,                  \* messages the chat has received
    \* the section-3 loop body on two consecutive report dates
    first_report_date,              \* the report date of the first run
    upstream_order,                 \* an order RetailCRM holds
    runs,                           \* what each run made of the order
    \* get_section_2_report_data
    uis_call_history,               \* get_uis_call_history's value
    chat_messages,                  \* newest chat message of each customer
    section_2_pc,                   \* position of the function
    missed_calls_count,
    unique_callers,
    missed_call_details,
    outgoing_calls_by_number,
    missed_idx,                     \* position in missed_call_details
    responded_to_missed_numbers,
    late_callbacks_count,
    chat_request_failed,            \* some RetailCRM request raised
    section_2_report                \* the counts of the returned lines

sectionVars == <<report_date_msk_date, env, pc, method_idx, all_orders,
                 orders_fetch_failed, uis_log, all_orders_unique,
                 outgoing_calls_details, order_idx, overdue_count,
                 total_relevant_orders, orders_in_work_time_count,
                 orders_outside_work_time_count, overdue_details, outcomes,
                 report_output_lines, uis_response>>

ordersListVars == <<upstream_pages, page, pages_requested,
                    orders_list_all_orders, orders_list_return>>

dateVars == <<date_argument, next_working_day_start, report_datetimes,
              working_datetimes>>

phoneVars == <<raw_phone_number, normalized_once, normalized_twice>>

mainVars == <<main_env, main_pc, section_calls, telegram_messages,
              escaped_exception, main_report_date>>

fetchVars == <<fetch_site, upstream_behaviour, fetch_elapsed, fetch_state>>

splitVars == <<split_text, split_limit, split_remainder, split_chunks,
               split_cuts, split_depth, split_state>>

sendVars == <<message_parts, send_idx, send_delivered, send_failed_at,
              send_state>>

runVars == <<wall_clock, server_utc_offset, run_pc, run_report_date,
             run_assembled, run_delivered>>

twoRunsVars == <<first_report_date, upstream_order, runs>>

section2Vars == <<uis_call_history, chat_messages, section_2_pc,
                  missed_calls_count,
                  unique_callers, missed_call_details,
                  outgoing_calls_by_number, missed_idx,
                  responded_to_missed_numbers, late_callbacks_count,
                  chat_request_failed, section_2_report>>

restVars == <<fetchVars, splitVars, sendVars, runVars, twoRunsVars,
              section2Vars>>

vars == <<sectionVars, ordersListVars, dateVars, phoneVars, mainVars,
          restVars>>

\* What a run of one function leaves alone.
outsideSection == <<ordersListVars, dateVars, phoneVars, mainVars, restVars>>
outsideOrdersList == <<sectionVars, dateVars, phoneVars, mainVars, restVars>>
outsideDates == <<sectionVars, ordersListVars, phoneVars, mainVars, restVars>>
outsidePhones == <<sectionVars, ordersListVars, dateVars, mainVars, restVars>>
outsideMain == <<sectionVars, ordersListVars, dateVars, phoneVars, restVars>>
firstVars == <<sectionVars, ordersListVars, dateVars, phoneVars, mainVars>>
outsideFetch == <<firstVars, splitVars, sendVars, runVars, twoRunsVars,
                  section2Vars>>
outsideSplit == <<firstVars, fetchVars, sendVars, runVars, twoRunsVars,
                  section2Vars>>
outsideSend == <<firstVars, fetchVars, splitVars, runVars, twoRunsVars,
                 section2Vars>>
outsideRun == <<firstVars, fetchVars, splitVars, sendVars, twoRunsVars,
                section2Vars>>
outsideTwoRuns == <<firstVars, fetchVars, splitVars, sendVars, runVars,
                    section2Vars>>
outsideSection2 == <<firstVars, fetchVars, splitVars, sendVars, runVars,
                     twoRunsVars>>

---------------------------------------------------------------------------
(* Bounds of the model. *)

MaxOrders == 2
MaxCalls == 2
MaxOrderId == 2

\* Thursday, Friday, Saturday, Sunday: every branch of the weekend rule.
ReportDates == {3, 4, 5, 6}

---------------------------------------------------------------------------
(* Values. *)

\* Python's None where a string is expected.
None == <<"None">>

\* first_contact_time = None.
NoContact == 0 - 1

\* A helper that has not been called yet has no value.
NotCalled == 0 - 2
NotNormalized == <<"not called">>

Digits == {"0", "1", "2", "3", "4", "5", "6", "7", "8", "9"}

Day == 24 * 3600

\* datetime.combine(date, time(hh, mm, ss), tzinfo=MSK_TZ)
Combine(date, hh, mm, ss) == date * Day + hh * 3600 + mm * 60 + ss

\* datetime.date()
DateOf(t) == t \div Day

\* date.weekday(): Monday is 0
weekday(date) == date % 7

\* datetime.strptime(s, "%Y-%m-%d %H:%M:%S") raises ValueError unless the
\* string has all four fields and each lies in its range.
strptime_ok(s) ==
    /\ Len(s) = 4
    /\ s[2] \in 0..23
    /\ s[3] \in 0..59
    /\ s[4] \in 0..59

strptime(s) == Combine(s[1], s[2], s[3], s[4])

\* datetime.strftime("%Y-%m-%d %H:%M:%S"): fractions of a second are dropped.
strftime(t) == <<t \div Day, (t % Day) \div 3600, (t % 3600) \div 60, t % 60>>

---------------------------------------------------------------------------
(* 3. Dates and times. *)

\* The full day cut at noon.
get_report_datetimes_msk_until_noon(date) ==
    [start |-> Combine(date, 0, 0, 0), end |-> Combine(date, 12, 0, 0)]

\* end is 23:59:59.999999; against whole-second instants t, t <= end holds
\* exactly when t <= 23:59:59.
get_report_datetimes_msk(date) ==
    [start |-> Combine(date, 0, 0, 0), end |-> Combine(date, 23, 59, 59)]

\* The window with the closing hour of an earlier revision.
get_working_datetimes_msk_close_20(date) ==
    [start |-> Combine(date, 9, 0, 0), end |-> Combine(date, 19, 59, 59)]

get_working_datetimes_msk(date) ==
    [start |-> Combine(date, 9, 0, 0), end |-> Combine(date, 20, 59, 59)]

\* The weekend rule for Sunday only.
get_next_working_day_start_msk_sunday_only(current_date) ==
    LET next_day == current_date + 1
        landed == IF weekday(next_day) >= 6
                  THEN next_day + (7 - weekday(next_day))
                  ELSE next_day
    IN Combine(landed, 9, 0, 0)

\* The next day's 09:00 with the weekend rule left out.
get_next_working_day_start_msk_no_weekend(current_date) ==
    Combine(current_date + 1, 9, 0, 0)

get_next_working_day_start_msk(current_date) ==
    LET next_day == current_date + 1
        landed == IF weekday(next_day) >= 5
                  THEN next_day + (7 - weekday(next_day))
                  ELSE next_day
    IN Combine(landed, 9, 0, 0)

RECURSIVE StripNonDigits(_)
\* re.sub(r'\D', '', phone_number)
StripNonDigits(s) ==
    IF s = <<>> THEN <<>>
    ELSE (IF Head(s) \in Digits THEN <<Head(s)>> ELSE <<>>)
         \o StripNonDigits(Tail(s))

\* The trunk prefix 8 kept.
normalize_phone_number_keep_8(phone_number) ==
    IF phone_number = None \/ phone_number = <<>> THEN None
    ELSE LET normalized == StripNonDigits(phone_number)
         IN IF Len(normalized) = 10 /\ normalized[1] = "9"
            THEN <<"7">> \o normalized
            ELSE normalized

\* The trunk prefix 8 put before a ten-digit number.
normalize_phone_number_prepend_8(phone_number) ==
    IF phone_number = None \/ phone_number = <<>> THEN None
    ELSE LET normalized == StripNonDigits(phone_number)
         IN IF Len(normalized) = 11 /\ normalized[1] = "8"
            THEN <<"7">> \o Tail(normalized)
            ELSE IF Len(normalized) = 10 /\ normalized[1] = "9"
            THEN <<"8">> \o normalized
            ELSE normalized

normalize_phone_number(phone_number) ==
    IF phone_number = None \/ phone_number = <<>> THEN None
    ELSE LET normalized_number == StripNonDigits(phone_number)
         IN IF Len(normalized_number) = 11 /\ normalized_number[1] = "8"
            THEN <<"7">> \o Tail(normalized_number)
            ELSE IF Len(normalized_number) = 10 /\ normalized_number[1] = "9"
            THEN <<"7">> \o normalized_number
            ELSE normalized_number

\* Python truthiness of an optional string.
Truthy(s) == s # None /\ s # <<>>

---------------------------------------------------------------------------
(* 4-5. The upstream services as the section sees them. *)

\* ORDER_METHOD_MAPPINGS, in iteration order.
ORDER_METHOD_MAPPINGS ==
    <<"one-click", "zadat-vopros", "zakazat-uslugu", "shopping-cart",
      "khotite-uvidet-foto">>

\* The instant a call-log record was made at, whatever the format its
\* start_time is rendered in (a record without seconds is still a call).
CallInstant(call) ==
    LET s == call.start_time
    IN Combine(s[1], s[2], s[3], IF Len(s) = 4 THEN s[4] ELSE 0)

\* get.calls_report answers with the records of the log that lie between
\* date_from and date_till, in log order.
UisCallsReport(log, date_from_str, date_to_str) ==
    SelectSeq(log, LAMBDA call:
        /\ strptime(date_from_str) <= CallInstant(call)
        /\ CallInstant(call) <= strptime(date_to_str))

\* How a get.calls_report request can end: the transport fails or the status
\* is an error (RequestException), the body is no JSON, the body carries
\* "error", result.data is no list, or result.data is a list of records.
UisResponseKinds ==
    {"transport_error", "malformed_json", "error_payload", "non_list_data",
     "ok"}

get_uis_call_history_error_as_empty(kind, data) ==
    IF kind \in {"ok", "error_payload"}
    THEN [is_none |-> FALSE, all_calls |-> IF kind = "ok" THEN data ELSE <<>>]
    ELSE [is_none |-> TRUE, all_calls |-> <<>>]

\* get_uis_call_history: None whenever the request failed, else the records.
get_uis_call_history(kind, data) ==
    IF kind = "ok"
    THEN [is_none |-> FALSE, all_calls |-> data]
    ELSE [is_none |-> TRUE, all_calls |-> <<>>]

---------------------------------------------------------------------------
(* 6. get_section_3_report_data. *)

\* all([RETAILCRM_BASE_URL, RETAILCRM_API_TOKEN, RETAILCRM_SITE_CODE,
\*      UIS_API_TOKEN])
EnvNames ==
    {"RETAILCRM_BASE_URL", "RETAILCRM_API_TOKEN", "RETAILCRM_SITE_CODE",
     "UIS_API_TOKEN"}

\* The spillover start with a closing hour that disagrees with the window's.
non_work_time_start_22(date) == Combine(date, 22, 0, 0)

non_work_time_start(date) == Combine(date, 21, 0, 0)

start_time_for_api(date) ==
    LET previous_day_end == get_report_datetimes_msk(date).start - 1
    IN Combine(DateOf(previous_day_end), 21, 0, 0)

uis_date_from_str(date) == strftime(start_time_for_api(date))

uis_date_to_str(date) == strftime(get_report_datetimes_msk(date).end + 1)

RECURSIVE orders_by_id(_, _)
\* {order['id']: order for order in all_orders}, filled one order at a time:
\* a key keeps the place of its first insertion and the value of its last.
orders_by_id(orders, acc) ==
    IF orders = <<>> THEN acc
    ELSE LET order == Head(orders)
             seen == {j \in 1..Len(acc) : acc[j].id = order.id}
         IN orders_by_id(Tail(orders),
                IF seen = {} THEN Append(acc, order)
                ELSE [j \in 1..Len(acc) |->
                         IF j \in seen THEN order ELSE acc[j]])

\* De-duplication that keeps the first record of an identifier (setdefault).
unique_orders_keep_first(orders) ==
    LET firsts == SelectSeq(
            [i \in 1..Len(orders) |-> [at |-> i, order |-> orders[i]]],
            LAMBDA e : \A j \in 1..(e.at - 1) : orders[j].id # e.order.id)
    IN [k \in 1..Len(firsts) |-> firsts[k].order]

\* all_orders_unique = list(orders_by_id.values())
unique_orders(orders) == orders_by_id(orders, <<>>)

RECURSIVE outgoing_calls_stop_at_unparsed(_)
outgoing_calls_stop_at_unparsed(calls) ==
    IF calls = <<>> THEN <<>>
    ELSE LET call == Head(calls)
             normalized_phone == normalize_phone_number(call.contact_phone_number)
             wanted == /\ call.direction = "out"
                       /\ call.contact_phone_number # <<>>
                       /\ call.start_time # <<>>
                       /\ Truthy(normalized_phone)
         IN IF wanted /\ ~ strptime_ok(call.start_time) THEN <<>>
            ELSE (IF wanted
                  THEN <<[phone_number |-> normalized_phone,
                          datetime_msk |-> strptime(call.start_time)]>>
                  ELSE <<>>)
                 \o outgoing_calls_stop_at_unparsed(Tail(calls))

RECURSIVE outgoing_calls(_)
\* The loop over all_uis_calls that fills outgoing_calls_details.
outgoing_calls(calls) ==
    IF calls = <<>> THEN <<>>
    ELSE LET call == Head(calls)
             normalized_phone == normalize_phone_number(call.contact_phone_number)
             kept == /\ call.direction = "out"
                     /\ call.contact_phone_number # <<>>
                     /\ call.start_time # <<>>
                     /\ Truthy(normalized_phone)
                     /\ strptime_ok(call.start_time)
         IN (IF kept
             THEN <<[phone_number |-> normalized_phone,
                     datetime_msk |-> strptime(call.start_time)]>>
             ELSE <<>>)
            \o outgoing_calls(Tail(calls))

\* order.get('phone'), else order['customer']['phones'][0].get('number')
customer_phone_number(order) ==
    IF order.phone # <<>> THEN order.phone
    ELSE IF Len(order.customer_phones) > 0 THEN order.customer_phones[1]
    ELSE None

\* The completeness test with the order number forgotten.
order_incomplete_no_number(order) ==
    ~ (/\ order.createdAt # <<>>
       /\ Truthy(normalize_phone_number(customer_phone_number(order))))

\* not (order_number and created_at_str and normalized_customer_phone)
order_incomplete(order) ==
    ~ (/\ order.number # ""
       /\ order.createdAt # <<>>
       /\ Truthy(normalize_phone_number(customer_phone_number(order))))

\* The previous day's close one hour late.
previous_day_non_work_time_22(date) == Combine(date - 1, 22, 0, 0)

previous_day_non_work_time(date) == Combine(date - 1, 21, 0, 0)

is_relevant_order(created, date) ==
    \/ /\ get_report_datetimes_msk(date).start <= created
       /\ created <= get_report_datetimes_msk(date).end
    \/ /\ created >= previous_day_non_work_time(date)
       /\ created < get_working_datetimes_msk(date).start

\* The overnight deadline at the opening hour, without the two hours.
classify_order_overnight_at_open(created, date) ==
    IF /\ get_working_datetimes_msk(date).start <= created
       /\ created <= get_working_datetimes_msk(date).end
    THEN [cls |-> "in_hours", deadline |-> created + 10 * 60]
    ELSE IF created >= non_work_time_start(date)
    THEN [cls |-> "same_day_late",
          deadline |-> get_next_working_day_start_msk(DateOf(created)) + 2 * 3600]
    ELSE IF /\ created >= previous_day_non_work_time(date)
            /\ created < get_working_datetimes_msk(date).start
    THEN [cls |-> "overnight",
          deadline |-> get_working_datetimes_msk(date).start]
    ELSE [cls |-> "unclassified", deadline |-> NoContact]

\* The if / elif / elif / else that sets contact_deadline_dt and bumps one of
\* the two class counters.
classify_order(created, date) ==
    IF /\ get_working_datetimes_msk(date).start <= created
       /\ created <= get_working_datetimes_msk(date).end
    THEN [cls |-> "in_hours", deadline |-> created + 10 * 60]
    ELSE IF created >= non_work_time_start(date)
    THEN [cls |-> "same_day_late",
          deadline |-> get_next_working_day_start_msk(DateOf(created)) + 2 * 3600]
    ELSE IF /\ created >= previous_day_non_work_time(date)
            /\ created < get_working_datetimes_msk(date).start
    THEN [cls |-> "overnight",
          deadline |-> get_working_datetimes_msk(date).start + 2 * 3600]
    ELSE [cls |-> "unclassified", deadline |-> NoContact]

RECURSIVE first_contact_time(_, _, _, _)
\* The scan over outgoing_calls_details; acc is first_contact_time so far.
first_contact_time(calls, phone, created, acc) ==
    IF calls = <<>> THEN acc
    ELSE LET call == Head(calls)
             better == /\ call.phone_number = phone
                       /\ call.datetime_msk >= created
                       /\ (acc = NoContact \/ call.datetime_msk < acc)
         IN first_contact_time(Tail(calls), phone, created,
                               IF better THEN call.datetime_msk ELSE acc)

\* The scan stopping at the first matching call of the list.
find_first_contact_first_match(calls, phone, created) ==
    LET hits == {i \in 1..Len(calls) :
                    /\ calls[i].phone_number = phone
                    /\ calls[i].datetime_msk >= created}
    IN IF hits = {} THEN NoContact
       ELSE calls[CHOOSE i \in hits : \A j \in hits : i <= j].datetime_msk

\* The first contact found for an order: the scan started from None.
find_first_contact(calls, phone, created) ==
    first_contact_time(calls, phone, created, NoContact)

\* The comparison with the deadline instant itself counted as late.
is_overdue_at_deadline(first_contact, contact_deadline_dt) ==
    first_contact = NoContact \/ first_contact >= contact_deadline_dt

is_overdue(first_contact, contact_deadline_dt) ==
    first_contact = NoContact \/ first_contact > contact_deadline_dt

\* One iteration of the loop over all_orders_unique: its locals when it ends.
\* counted: total_relevant_orders was incremented; cls: the branch taken.
EvaluateOrder(order, date, calls) ==
    LET blank == [order |-> order, counted |-> FALSE, cls |-> "incomplete",
                  phone |-> None, created |-> NoContact,
                  deadline |-> NoContact, first_contact |-> NoContact,
                  overdue |-> FALSE]
        phone == normalize_phone_number(customer_phone_number(order))
    IN IF order_incomplete(order) THEN blank
       ELSE IF ~ strptime_ok(order.createdAt)
       THEN [blank EXCEPT !.cls = "unparsed", !.phone = phone]
       ELSE LET created == strptime(order.createdAt)
                class == classify_order(created, date)
                first == find_first_contact(calls, phone, created)
            IN IF ~ is_relevant_order(created, date)
               THEN [blank EXCEPT !.cls = "irrelevant", !.phone = phone,
                                  !.created = created]
               ELSE IF class.cls = "unclassified"
               THEN [blank EXCEPT !.cls = "unclassified", !.phone = phone,
                                  !.created = created, !.counted = TRUE]
               ELSE [order |-> order, counted |-> TRUE, cls |-> class.cls,
                     phone |-> phone, created |-> created,
                     deadline |-> class.deadline, first_contact |-> first,
                     overdue |-> is_overdue(first, class.deadline)]

\* The line appended to overdue_details.
DetailLine(o) ==
    [kind |-> "detail", id |-> o.order.id, number |-> o.order.number,
     created |-> o.order.createdAt, deadline |-> strftime(o.deadline),
     contact |-> IF o.first_contact = NoContact THEN <<>>
                 ELSE strftime(o.first_contact)]

\* The two count lines in the other order.
section_3_report_lines_swapped(overdue, total, outside, inside, details) ==
    <<[kind |-> "summary", overdue |-> overdue, total |-> total],
      [kind |-> "in_work_time", count |-> inside],
      [kind |-> "outside_work_time", count |-> outside]>>
    \o details

\* The lines the section returns after the loop: the summary
\* "overdue/total", the out-of-hours count, the in-hours count, then
\* overdue_details.
section_3_report_lines(overdue, total, outside, inside, details) ==
    <<[kind |-> "summary", overdue |-> overdue, total |-> total],
      [kind |-> "outside_work_time", count |-> outside],
      [kind |-> "in_work_time", count |-> inside]>>
    \o details

---------------------------------------------------------------------------
(* The inputs of a run: what the two services answer. *)

PhoneA8 == <<"8", "9", "9", "9", "1", "2", "3", "4", "5", "6", "7">>
PhoneA7plus == <<"+", "7", "9", "9", "9", "1", "2", "3", "4", "5", "6", "7">>
PhoneA10 == <<"9", "9", "9", "1", "2", "3", "4", "5", "6", "7">>
PhoneA7 == <<"7", "9", "9", "9", "1", "2", "3", "4", "5", "6", "7">>
PhoneB == <<"7", "4", "9", "5", "0", "0", "0", "0", "0", "0", "1">>
PhoneNoDigits == <<"-">>

SeqsUpTo(S, n) == UNION {[1..k -> S] : k \in 0..n}

Order(id, number, createdAt, phone, customer_phones) ==
    [id |-> id, number |-> number, createdAt |-> createdAt, phone |-> phone,
     customer_phones |-> customer_phones]

\* Creation times around every boundary of the report date's windows.
OrderTimes(date) ==
    {<<date - 1, 20, 59, 59>>, <<date - 1, 21, 0, 0>>, <<date - 1, 23, 0, 0>>,
     <<date, 8, 59, 59>>, <<date, 9, 0, 0>>, <<date, 10, 0, 0>>,
     <<date, 20, 59, 59>>, <<date, 21, 0, 0>>, <<date, 22, 0, 0>>,
     <<date, 23, 59, 59>>, <<date + 1, 0, 0, 0>>}

\* One order in every shape the loop distinguishes.
RichOrders(date) ==
    {Order(1, "1001", t, PhoneA8, <<>>) : t \in OrderTimes(date)}
    \cup {Order(1, "1001", <<date, 10, 0, 0>>, <<>>, <<PhoneA10>>),
          Order(1, "1001", <<date, 10, 0, 0>>, PhoneB, <<>>),
          Order(1, "", <<date, 10, 0, 0>>, PhoneA8, <<>>),
          Order(1, "1001", <<>>, PhoneA8, <<>>),
          Order(1, "1001", <<date, 10, 0>>, PhoneA8, <<>>),
          Order(1, "1001", <<date, 10, 0, 0>>, <<>>, <<>>),
          Order(1, "1001", <<date, 10, 0, 0>>, PhoneNoDigits, <<>>)}

\* A few plain orders, for runs over several orders.
BasicOrders(date) ==
    UNION {{Order(id, "2001", <<date, 10, 0, 0>>, PhoneA7plus, <<>>),
            Order(id, "2002", <<date, 22, 0, 0>>, PhoneB, <<>>),
            Order(id, "2003", <<date, 10, 0>>, PhoneA8, <<>>)}
           : id \in 1..MaxOrderId}

\* The order lists a run may fetch: one order of any shape, or up to
\* MaxOrders plain ones.
OrderLists(date) ==
    SeqsUpTo(BasicOrders(date), MaxOrders)
    \cup {<<o>> : o \in RichOrders(date)}

\* What one get_orders_list call may add to the orders fetched so far; one
\* answer never lists an order identifier twice.
OrderBatches(date, fetched) ==
    {SubSeq(l, Len(fetched) + 1, Len(l)) :
        l \in {l \in OrderLists(date) :
                 /\ Len(l) >= Len(fetched)
                 /\ SubSeq(l, 1, Len(fetched)) = fetched
                 /\ \A i, j \in (Len(fetched) + 1)..Len(l) :
                        l[i].id = l[j].id => i = j}}

Call(direction, phone, start_time) ==
    [direction |-> direction, contact_phone_number |-> phone,
     start_time |-> start_time]

\* Calls placed around an order created at t whose deadline is dl.
CallsAround(t, dl) ==
    {Call("out", PhoneA7, strftime(t - 1)),
     Call("out", PhoneA7, strftime(t)),
     Call("out", PhoneA7, strftime(dl)),
     Call("out", PhoneA7, strftime(dl + 1)),
     Call("in", PhoneA7, strftime(t)),
     Call("out", PhoneB, strftime(t)),
     Call("out", PhoneA7, SubSeq(strftime(t), 1, 3))}

\* The call logs the UIS service may hold when `fetched` orders were fetched:
\* up to MaxCalls calls around the creation time and deadline of a single
\* fetched order, and for several fetched orders one call at most.
CallLogs(date, fetched) ==
    LET o == EvaluateOrder(fetched[1], date, <<>>)
        t == IF fetched # <<>> /\ o.created # NoContact THEN o.created
             ELSE Combine(date, 10, 0, 0)
        dl == IF fetched # <<>> /\ o.deadline # NoContact THEN o.deadline
              ELSE t + 10 * 60
    IN IF Len(fetched) <= 1 THEN SeqsUpTo(CallsAround(t, dl), MaxCalls)
       ELSE {<<>>, <<Call("out", PhoneA7, <<date, 10, 5, 0>>)>>,
             <<Call("out", PhoneA7, <<date, 10, 15, 0>>)>>}

---------------------------------------------------------------------------
(* The functions that are not running keep these values. *)

OrdersListIdle ==
    /\ upstream_pages = <<>>
    /\ page = 1
    /\ pages_requested = <<>>
    /\ orders_list_all_orders = <<>>
    /\ orders_list_return = [kind |-> "idle"]

DatesIdle ==
    /\ date_argument = 0
    /\ next_working_day_start = NotCalled
    /\ report_datetimes = [start |-> NotCalled, end |-> NotCalled]
    /\ working_datetimes = [start |-> NotCalled, end |-> NotCalled]

PhonesIdle ==
    /\ raw_phone_number = None
    /\ normalized_once = NotNormalized
    /\ normalized_twice = NotNormalized

MainIdle ==
    /\ main_env = {}
    /\ main_pc = "idle"
    /\ section_calls = <<>>
    /\ telegram_messages = <<>>
    /\ escaped_exception = ""
    /\ main_report_date = NotCalled

\* No request is being made.
NoSite == [function |-> "", line |-> 0, timeout |-> NotCalled]

FetchIdle ==
    /\ fetch_site = NoSite
    /\ upstream_behaviour = "idle"
    /\ fetch_elapsed = 0
    /\ fetch_state = "idle"

SplitIdle ==
    /\ split_text = <<>>
    /\ split_limit = 0
    /\ split_remainder = <<>>
    /\ split_chunks = <<>>
    /\ split_cuts = <<>>
    /\ split_depth = 0
    /\ split_state = "idle"

SendIdle ==
    /\ message_parts = <<>>
    /\ send_idx = 1
    /\ send_delivered = <<>>
    /\ send_failed_at = 0
    /\ send_state = "idle"

RunIdle ==
    /\ wall_clock = 0
    /\ server_utc_offset = 0
    /\ run_pc = "idle"
    /\ run_report_date = NotCalled
    /\ run_assembled = <<>>
    /\ run_delivered = <<>>

TwoRunsIdle ==
    /\ first_report_date = 0
    /\ upstream_order = <<>>
    /\ runs = <<>>

Section2Idle ==
    /\ uis_call_history = <<>>
    /\ chat_messages = <<>>
    /\ section_2_pc = "idle"
    /\ missed_calls_count = 0
    /\ unique_callers = {}
    /\ missed_call_details = <<>>
    /\ outgoing_calls_by_number = <<>>
    /\ missed_idx = 0
    /\ responded_to_missed_numbers = {}
    /\ late_callbacks_count = 0
    /\ chat_request_failed = FALSE
    /\ section_2_report = <<>>

RestIdle ==
    /\ FetchIdle /\ SplitIdle /\ SendIdle /\ RunIdle /\ TwoRunsIdle
    /\ Section2Idle

IdleOutsideSection ==
    OrdersListIdle /\ DatesIdle /\ PhonesIdle /\ MainIdle /\ RestIdle

---------------------------------------------------------------------------
(* The run. *)

Init ==
    /\ report_date_msk_date \in ReportDates
    /\ env \in {EnvNames} \cup {EnvNames \ {n} : n \in EnvNames}
    /\ pc = "start"
    /\ method_idx = 1
    /\ all_orders = <<>>
    /\ orders_fetch_failed = FALSE
    /\ uis_log = <<>>
    /\ all_orders_unique = <<>>
    /\ outgoing_calls_details = <<>>
    /\ order_idx = 1
    /\ overdue_count = 0
    /\ total_relevant_orders = 0
    /\ orders_in_work_time_count = 0
    /\ orders_outside_work_time_count = 0
    /\ overdue_details = <<>>
    /\ outcomes = <<>>
    /\ report_output_lines = <<>>
    /\ uis_response = "not requested"
    /\ IdleOutsideSection

\* if not all([...]): return [error line]
CheckEnv ==
    /\ pc = "start"
    /\ IF env = EnvNames
       THEN /\ pc' = "fetch_orders"
            /\ UNCHANGED report_output_lines
       ELSE /\ pc' = "done"
            /\ report_output_lines' = <<[kind |-> "error_env"]>>
    /\ UNCHANGED <<report_date_msk_date, env, method_idx, all_orders,
                   orders_fetch_failed, uis_log, all_orders_unique,
                   outgoing_calls_details, order_idx, overdue_count,
                   total_relevant_orders, orders_in_work_time_count,
                   orders_outside_work_time_count, overdue_details, outcomes,
                   uis_response, outsideSection>>

\* One iteration of the loop over ORDER_METHOD_MAPPINGS: get_orders_list
\* answers None (failed) or a list, and "if orders_for_method:" extends
\* all_orders by a non-empty list only.
FetchOrders ==
    /\ pc = "fetch_orders"
    /\ method_idx <= Len(ORDER_METHOD_MAPPINGS)
    /\ \E failed \in BOOLEAN :
       \E orders_for_method \in
              IF failed THEN {<<>>}
              ELSE OrderBatches(report_date_msk_date, all_orders) :
          /\ all_orders' = IF ~ failed /\ orders_for_method # <<>>
                           THEN all_orders \o orders_for_method
                           ELSE all_orders
          /\ orders_fetch_failed' = (orders_fetch_failed \/ failed)
    /\ method_idx' = method_idx + 1
    /\ pc' = IF method_idx = Len(ORDER_METHOD_MAPPINGS) THEN "fetch_calls"
             ELSE "fetch_orders"
    /\ UNCHANGED <<report_date_msk_date, env, uis_log, all_orders_unique,
                   outgoing_calls_details, order_idx, overdue_count,
                   total_relevant_orders, orders_in_work_time_count,
                   orders_outside_work_time_count, overdue_details, outcomes,
                   report_output_lines, uis_response, outsideSection>>

\* De-duplication, then get_uis_call_history over the fetch window: None
\* (failed) ends the run with the error line, a list is reduced to
\* outgoing_calls_details.
FetchCalls ==
    /\ pc = "fetch_calls"
    /\ all_orders_unique' = unique_orders(all_orders)
    /\ \E kind \in UisResponseKinds :
       \E log \in IF kind = "ok"
                  THEN CallLogs(report_date_msk_date, all_orders)
                  ELSE {uis_log} :
          LET all_uis_calls ==
                  get_uis_call_history(kind, UisCallsReport(log,
                      uis_date_from_str(report_date_msk_date),
                      uis_date_to_str(report_date_msk_date)))
          IN /\ uis_response' = kind
             /\ uis_log' = log
             /\ IF all_uis_calls.is_none
                THEN /\ pc' = "done"
                     /\ report_output_lines' = <<[kind |-> "error_uis"]>>
                     /\ UNCHANGED outgoing_calls_details
                ELSE /\ pc' = "evaluate"
                     /\ outgoing_calls_details' =
                            outgoing_calls(all_uis_calls.all_calls)
                     /\ UNCHANGED report_output_lines
    /\ UNCHANGED <<report_date_msk_date, env, method_idx, all_orders,
                   orders_fetch_failed, order_idx, overdue_count,
                   total_relevant_orders, orders_in_work_time_count,
                   orders_outside_work_time_count, overdue_details, outcomes,
                   outsideSection>>

\* One iteration of the loop over all_orders_unique.
EvaluateNextOrder ==
    /\ pc = "evaluate"
    /\ order_idx <= Len(all_orders_unique)
    /\ LET o == EvaluateOrder(all_orders_unique[order_idx],
                              report_date_msk_date, outgoing_calls_details)
       IN /\ outcomes' = Append(outcomes, o)
          /\ total_relevant_orders' =
                 total_relevant_orders + (IF o.counted THEN 1 ELSE 0)
          /\ orders_in_work_time_count' =
                 orders_in_work_time_count
                 + (IF o.cls = "in_hours" THEN 1 ELSE 0)
          /\ orders_outside_work_time_count' =
                 orders_outside_work_time_count
                 + (IF o.cls \in {"same_day_late", "overnight"} THEN 1 ELSE 0)
          /\ overdue_count' = overdue_count + (IF o.overdue THEN 1 ELSE 0)
          /\ overdue_details' = IF o.overdue
                                THEN Append(overdue_details, DetailLine(o))
                                ELSE overdue_details
    /\ order_idx' = order_idx + 1
    /\ UNCHANGED <<report_date_msk_date, env, pc, method_idx, all_orders,
                   orders_fetch_failed, uis_log, all_orders_unique,
                   outgoing_calls_details, report_output_lines,
                   uis_response, outsideSection>>

\* The report lines, once the loop is over.
RenderReport ==
    /\ pc = "evaluate"
    /\ order_idx > Len(all_orders_unique)
    /\ report_output_lines' =
           section_3_report_lines(overdue_count, total_relevant_orders,
                                  orders_outside_work_time_count,
                                  orders_in_work_time_count, overdue_details)
    /\ pc' = "done"
    /\ UNCHANGED <<report_date_msk_date, env, method_idx, all_orders,
                   orders_fetch_failed, uis_log, all_orders_unique,
                   outgoing_calls_details, order_idx, overdue_count,
                   total_relevant_orders, orders_in_work_time_count,
                   orders_outside_work_time_count, overdue_details, outcomes,
                   uis_response, outsideSection>>

Next ==
    \/ CheckEnv
    \/ FetchOrders
    \/ FetchCalls
    \/ EvaluateNextOrder
    \/ RenderReport

Spec == Init /\ [][Next]_vars

---------------------------------------------------------------------------
(* Properties. *)

Outcomes == {outcomes[k] : k \in DOMAIN outcomes}

\* The order got a class and a deadline.
Classified(o) == o.cls \in {"in_hours", "same_day_late", "overnight"}

\* The instants of the parsed outbound calls that qualify for outcome o.
QualifyingTimes(o) ==
    {outgoing_calls_details[i].datetime_msk :
        i \in {i \in DOMAIN outgoing_calls_details :
                  /\ outgoing_calls_details[i].phone_number = o.phone
                  /\ outgoing_calls_details[i].datetime_msk >= o.created}}

\* C1: the overdue flag of every evaluated order is true exactly when no
\* qualifying outbound call exists or the earliest one is strictly later than
\* the deadline; a call at the deadline instant is on time.
C1_OverdueFlag ==
    \A o \in Outcomes :
        Classified(o) =>
            (o.overdue <=>
                \/ QualifyingTimes(o) = {}
                \/ \A t \in QualifyingTimes(o) : t > o.deadline)

\* An order whose earliest qualifying call is at the deadline instant itself.
C1_Witness ==
    \E o \in Outcomes :
        /\ Classified(o)
        /\ o.deadline \in QualifyingTimes(o)
        /\ \A t \in QualifyingTimes(o) : t >= o.deadline
        /\ ~ o.overdue

\* The call records the fetch window returned.
FetchedCalls ==
    LET calls == UisCallsReport(uis_log,
                     uis_date_from_str(report_date_msk_date),
                     uis_date_to_str(report_date_msk_date))
    IN {calls[i] : i \in DOMAIN calls}

\* Instants of the fetched outbound calls to o's normalized phone made at or
\* after o's creation.
ContactTimes(o) ==
    {strptime(c.start_time) :
        c \in {c \in FetchedCalls :
                  /\ c.direction = "out"
                  /\ strptime_ok(c.start_time)
                  /\ normalize_phone_number(c.contact_phone_number) = o.phone
                  /\ strptime(c.start_time) >= o.created}}

\* C2: the first-contact time of an order is the minimum timestamp over the
\* outbound calls to its normalized phone made at or after its creation, none
\* when there is no such call; nothing else in the call list influences it.
C2_FirstContactIsMinimum ==
    \A o \in Outcomes :
        Classified(o) =>
            IF ContactTimes(o) = {} THEN o.first_contact = NoContact
            ELSE /\ o.first_contact \in ContactTimes(o)
                 /\ \A t \in ContactTimes(o) : o.first_contact <= t

\* Two qualifying calls, the later one listed first, the earlier one chosen.
C2_Witness ==
    \E o \in Outcomes :
        /\ Classified(o)
        /\ Len(outgoing_calls_details) = 2
        /\ Cardinality(ContactTimes(o)) = 2
        /\ outgoing_calls_details[1].datetime_msk
               > outgoing_calls_details[2].datetime_msk
        /\ o.first_contact = outgoing_calls_details[2].datetime_msk
        /\ o.first_contact = o.created

\* The order can be evaluated: number, creation time and phone are there and
\* the creation time parses.
Parsed(o) == o.created # NoContact

\* C3: an order created from 09:00:00 to 20:59:59 of the report date is
\* in-hours with deadline creation + 10 minutes; a first contact 5 minutes
\* after creation is on time, one 15 minutes after is overdue.
C3_InHoursDeadline ==
    \A o \in Outcomes :
        (/\ Parsed(o)
         /\ Combine(report_date_msk_date, 9, 0, 0) <= o.created
         /\ o.created <= Combine(report_date_msk_date, 20, 59, 59))
        => /\ o.counted
           /\ o.cls = "in_hours"
           /\ o.deadline = o.created + 600
           /\ (o.first_contact = o.created + 300 => ~ o.overdue)
           /\ (o.first_contact = o.created + 900 => o.overdue)

\* An order created in the last second of business hours, called at its
\* deadline.
C3_Witness ==
    \E o \in Outcomes :
        /\ o.created = Combine(report_date_msk_date, 20, 59, 59)
        /\ o.cls = "in_hours"
        /\ o.first_contact = o.created + 600
        /\ ~ o.overdue

\* The first date after `date` that is Monday to Friday.
FirstWeekdayAfter(date) ==
    CHOOSE d \in (date + 1)..(date + 3) :
        /\ d % 7 \notin {5, 6}
        /\ \A e \in (date + 1)..(d - 1) : e % 7 \in {5, 6}

\* C4: an order created on the report date at or after 21:00:00 is
\* out-of-hours (same-day late) with deadline 11:00 on the first weekday
\* after the report date.
C4_SameDayLateDeadline ==
    \A o \in Outcomes :
        (/\ Parsed(o)
         /\ DateOf(o.created) = report_date_msk_date
         /\ o.created > Combine(report_date_msk_date, 20, 59, 59))
        => /\ o.counted
           /\ o.cls = "same_day_late"
           /\ o.deadline =
                  Combine(FirstWeekdayAfter(report_date_msk_date), 11, 0, 0)

\* A Friday order created at 21:00:00 whose deadline is Monday 11:00.
C4_Witness ==
    \E o \in Outcomes :
        /\ weekday(report_date_msk_date) = 4
        /\ o.created = Combine(report_date_msk_date, 21, 0, 0)
        /\ o.cls = "same_day_late"
        /\ o.deadline = Combine(report_date_msk_date + 3, 11, 0, 0)

\* C5: an order created from 21:00:00 of the previous day up to but excluding
\* 09:00:00 of the report date is out-of-hours (overnight) with deadline
\* 11:00 on the report date.
C5_OvernightDeadline ==
    \A o \in Outcomes :
        (/\ Parsed(o)
         /\ Combine(report_date_msk_date - 1, 21, 0, 0) <= o.created
         /\ o.created < Combine(report_date_msk_date, 9, 0, 0))
        => /\ o.counted
           /\ o.cls = "overnight"
           /\ o.deadline = Combine(report_date_msk_date, 11, 0, 0)

\* An order created at 21:00:00 of the previous day, evaluated as overnight.
C5_Witness ==
    \E o \in Outcomes :
        /\ o.created = Combine(report_date_msk_date - 1, 21, 0, 0)
        /\ o.cls = "overnight"
        /\ o.deadline = Combine(report_date_msk_date, 11, 0, 0)

\* C6: at every point of the loop the in-hours and out-of-hours counters add
\* up to the total, the overdue counter does not exceed it, and every order
\* counted in the total was given a class.
C6_CountersAddUp ==
    /\ orders_in_work_time_count + orders_outside_work_time_count
           = total_relevant_orders
    /\ overdue_count <= total_relevant_orders
    /\ \A o \in Outcomes : o.counted => Classified(o)
    /\ total_relevant_orders
           = Cardinality({k \in DOMAIN outcomes : outcomes[k].counted})

\* A finished run that counted an in-hours and an out-of-hours order.
C6_Witness ==
    /\ pc = "done"
    /\ total_relevant_orders = 2
    /\ orders_in_work_time_count = 1
    /\ orders_outside_work_time_count = 1
    /\ overdue_count >= 1

\* The raw customer phone of an order, wherever it is found.
RawCustomerPhone(order) ==
    IF order.phone # <<>> THEN order.phone
    ELSE IF order.customer_phones # <<>> THEN order.customer_phones[1]
    ELSE <<>>

\* The order lacks a number, a creation time or a phone with a digit in it,
\* or its creation time does not parse.
Deficient(order) ==
    \/ order.number = ""
    \/ order.createdAt = <<>>
    \/ ~ strptime_ok(order.createdAt)
    \/ \A i \in DOMAIN RawCustomerPhone(order) :
           RawCustomerPhone(order)[i] \notin Digits

Counters ==
    <<total_relevant_orders, orders_in_work_time_count,
      orders_outside_work_time_count, overdue_count, overdue_details>>

\* C7: the loop iteration over an order without number, creation time or
\* normalizable phone, or with an unparseable creation time, changes no
\* counter and adds no detail line, and the loop goes on to the next order;
\* a rendered report has evaluated every order of the list.
C7_DeficientOrderIgnored ==
    /\ [](\A o \in Outcomes :
              Deficient(o.order) => ~ o.counted /\ ~ Classified(o) /\ ~ o.overdue)
    /\ []((pc = "done" /\ report_output_lines # <<>>
              /\ report_output_lines[1].kind = "summary")
          => Len(outcomes) = Len(all_orders_unique))
    /\ [][(/\ pc = "evaluate"
           /\ order_idx <= Len(all_orders_unique)
           /\ Deficient(all_orders_unique[order_idx]))
          => (Counters' = Counters /\ order_idx' = order_idx + 1)]_vars

\* A finished run whose first order was deficient and whose second order was
\* counted.
C7_Witness ==
    /\ pc = "done"
    /\ Len(outcomes) = 2
    /\ Deficient(outcomes[1].order)
    /\ ~ outcomes[1].counted
    /\ outcomes[2].counted
    /\ total_relevant_orders = 1

\* C8: a run in which some order fetch failed ends with an error line, never
\* with the counters.
C8_OrderFetchFailureShown ==
    (pc = "done" /\ orders_fetch_failed)
    => /\ report_output_lines # <<>>
       /\ \A i \in DOMAIN report_output_lines :
              report_output_lines[i].kind \in {"error_env", "error_uis",
                                               "error_orders"}

\* The outbound calls of the UIS log to o's phone made on the next business
\* day, at or after o's creation and no later than 11:00 of that day.
NextDayCallsInTime(o) ==
    {c \in {uis_log[i] : i \in DOMAIN uis_log} :
        /\ c.direction = "out"
        /\ strptime_ok(c.start_time)
        /\ normalize_phone_number(c.contact_phone_number) = o.phone
        /\ strptime(c.start_time) >= o.created
        /\ DateOf(strptime(c.start_time))
               = FirstWeekdayAfter(report_date_msk_date)
        /\ strptime(c.start_time)
               <= Combine(FirstWeekdayAfter(report_date_msk_date), 11, 0, 0)}

\* C9: an order created after the close of business on the report date whose
\* phone gets an outbound call on the next business day at or before 11:00 is
\* on time.
C9_NextDayCallOnTime ==
    \A o \in Outcomes :
        (o.cls = "same_day_late" /\ NextDayCallsInTime(o) # {})
        => ~ o.overdue

\* all_orders_unique has been computed.
Deduplicated == pc \in {"evaluate", "done"} /\ env = EnvNames

FirstIndex(id) ==
    CHOOSE i \in DOMAIN all_orders :
        /\ all_orders[i].id = id
        /\ \A j \in 1..(i - 1) : all_orders[j].id # id

LastIndex(id) ==
    CHOOSE i \in DOMAIN all_orders :
        /\ all_orders[i].id = id
        /\ \A j \in (i + 1)..Len(all_orders) : all_orders[j].id # id

\* Every fetched identifier is in all_orders_unique exactly once, and no other.
EachIdOnce ==
    /\ \A i \in DOMAIN all_orders :
           Cardinality({k \in DOMAIN all_orders_unique :
                           all_orders_unique[k].id = all_orders[i].id}) = 1
    /\ \A k \in DOMAIN all_orders_unique :
           \E i \in DOMAIN all_orders : all_orders[i].id = all_orders_unique[k].id

\* C10 as stated: every identifier is kept exactly once, with the record of
\* its first occurrence in fetch order.
C10_FirstOccurrenceKept ==
    Deduplicated =>
        /\ EachIdOnce
        /\ \A k \in DOMAIN all_orders_unique :
               all_orders_unique[k]
                   = all_orders[FirstIndex(all_orders_unique[k].id)]

\* C10, amended: every identifier is kept exactly once, at the place of its
\* first occurrence in fetch order, with the record of its last occurrence.
C10_LastOccurrenceKept ==
    Deduplicated =>
        /\ EachIdOnce
        /\ \A k \in DOMAIN all_orders_unique :
               all_orders_unique[k]
                   = all_orders[LastIndex(all_orders_unique[k].id)]
        /\ \A k, l \in DOMAIN all_orders_unique :
               k < l => FirstIndex(all_orders_unique[k].id)
                            < FirstIndex(all_orders_unique[l].id)

\* Two different records with one identifier were fetched and the later one
\* was kept.
C10_Witness ==
    /\ Deduplicated
    /\ Len(all_orders) = 2
    /\ all_orders[1].id = all_orders[2].id
    /\ all_orders[1] # all_orders[2]
    /\ all_orders_unique = <<all_orders[2]>>

---------------------------------------------------------------------------
(* get_orders_list: the paging loop against the RetailCRM order endpoint.  *)

\* Pages the upstream is asked for at most.
MaxPages == 3

\* pagination.get(...) of a key that is missing.
Absent == 0 - 1

\* What the endpoint can answer to the request for page p: a transport or
\* status error, a body that is no JSON, success = false, or a page of
\* orders (none, or the order that sits on page p) with or without the
\* pagination block.
PageResponses(p) ==
    {[kind |-> k, orders |-> <<>>,
      pagination |-> [currentPage |-> Absent, totalPageCount |-> Absent]] :
        k \in {"transport_error", "malformed_json", "not_success"}}
    \cup
    {[kind |-> "ok", orders |-> o, pagination |-> pg] :
        o \in {<<>>, <<p>>},
        pg \in {[currentPage |-> Absent, totalPageCount |-> Absent]}
               \cup {[currentPage |-> c, totalPageCount |-> MaxPages - 1] :
                        c \in 1..MaxPages}}

page_outcome_break_when_greater(response, orders_so_far) ==
    IF response.kind # "ok"
    THEN [next |-> "return_none", all_orders |-> orders_so_far]
    ELSE IF response.orders = <<>>
    THEN [next |-> "return_list", all_orders |-> orders_so_far]
    ELSE IF Absent \in {response.pagination.currentPage,
                        response.pagination.totalPageCount}
    THEN [next |-> "return_none", all_orders |-> orders_so_far]
    ELSE IF response.pagination.currentPage
            > response.pagination.totalPageCount
    THEN [next |-> "return_list",
          all_orders |-> orders_so_far \o response.orders]
    ELSE [next |-> "next_page",
          all_orders |-> orders_so_far \o response.orders]

\* One pass of the while loop body over the answer to one request:
\* RequestException, JSONDecodeError and "not success" return None; an empty
\* batch breaks; else the batch is appended, and currentPage >= totalPageCount
\* breaks (a missing field makes the comparison raise TypeError, which the
\* last except clause turns into None); else page += 1.
page_outcome(response, orders_so_far) ==
    IF response.kind # "ok"
    THEN [next |-> "return_none", all_orders |-> orders_so_far]
    ELSE IF response.orders = <<>>
    THEN [next |-> "return_list", all_orders |-> orders_so_far]
    ELSE IF Absent \in {response.pagination.currentPage,
                        response.pagination.totalPageCount}
    THEN [next |-> "return_none", all_orders |-> orders_so_far]
    ELSE IF response.pagination.currentPage
            >= response.pagination.totalPageCount
    THEN [next |-> "return_list",
          all_orders |-> orders_so_far \o response.orders]
    ELSE [next |-> "next_page",
          all_orders |-> orders_so_far \o response.orders]

SectionIdle ==
    /\ report_date_msk_date = 0
    /\ env = {}
    /\ pc = "idle"
    /\ method_idx = 1
    /\ all_orders = <<>>
    /\ orders_fetch_failed = FALSE
    /\ uis_log = <<>>
    /\ all_orders_unique = <<>>
    /\ outgoing_calls_details = <<>>
    /\ order_idx = 1
    /\ overdue_count = 0
    /\ total_relevant_orders = 0
    /\ orders_in_work_time_count = 0
    /\ orders_outside_work_time_count = 0
    /\ overdue_details = <<>>
    /\ outcomes = <<>>
    /\ report_output_lines = <<>>
    /\ uis_response = "not requested"

IdleOutsideOrdersList ==
    SectionIdle /\ DatesIdle /\ PhonesIdle /\ MainIdle /\ RestIdle

RECURSIVE UpstreamPages(_)
\* The answers the endpoint holds for pages 1..n.
UpstreamPages(n) ==
    IF n = 0 THEN {<<>>}
    ELSE {Append(pages, r) : pages \in UpstreamPages(n - 1),
                             r \in PageResponses(n)}

\* A call get_orders_list(...) as the section makes it: page = 1.
InitOrdersList ==
    /\ upstream_pages \in UpstreamPages(MaxPages)
    /\ page = 1
    /\ pages_requested = <<>>
    /\ orders_list_all_orders = <<>>
    /\ orders_list_return = [kind |-> "running"]
    /\ IdleOutsideOrdersList

\* One iteration of "while True": the request for the current page and
\* what the loop does with the answer, the return included.
RequestPage ==
    /\ orders_list_return.kind = "running"
    /\ page <= MaxPages
    /\ pages_requested' = Append(pages_requested, page)
    /\ LET o == page_outcome(upstream_pages[page], orders_list_all_orders)
       IN /\ orders_list_all_orders' = o.all_orders
          /\ page' = IF o.next = "next_page" THEN page + 1 ELSE page
          /\ orders_list_return' =
                 CASE o.next = "next_page" -> orders_list_return
                   [] o.next = "return_list" ->
                          [kind |-> "list", orders |-> o.all_orders]
                   [] o.next = "return_none" -> [kind |-> "none"]
    /\ UNCHANGED <<upstream_pages, outsideOrdersList>>

NextOrdersList == RequestPage

SpecOrdersList == InitOrdersList /\ [][NextOrdersList]_vars

\* Every request returns or raises, so the loop body is always taken again.
SpecOrdersListFair == SpecOrdersList /\ WF_vars(RequestPage)

---------------------------------------------------------------------------
(* Properties of get_orders_list. *)

\* A page that ends the paging: no orders, or currentPage >= totalPageCount.
IsLastPage(r) ==
    /\ r.kind = "ok"
    /\ \/ r.orders = <<>>
       \/ /\ r.pagination.currentPage # Absent
          /\ r.pagination.totalPageCount # Absent
          /\ r.pagination.currentPage >= r.pagination.totalPageCount

\* A page after which the next one is asked for.
IsInnerPage(r) ==
    /\ r.kind = "ok"
    /\ r.orders # <<>>
    /\ r.pagination.currentPage # Absent
    /\ r.pagination.totalPageCount # Absent
    /\ r.pagination.currentPage < r.pagination.totalPageCount

RECURSIVE OrdersOfPages(_, _)
\* The orders of pages 1..k, in page order.
OrdersOfPages(pages, k) ==
    IF k = 0 THEN <<>>
    ELSE OrdersOfPages(pages, k - 1) \o pages[k].orders

PagesRead == Len(pages_requested)

C11_Paging ==
    \* the requests are for pages 1, 2, 3, ... without a gap
    /\ \A i \in 1..PagesRead : pages_requested[i] = i
    \* no page is asked for after a page that ends the paging
    /\ \A i \in 1..PagesRead - 1 : IsInnerPage(upstream_pages[i])
    /\ orders_list_return.kind = "running" =>
           \A i \in 1..PagesRead : IsInnerPage(upstream_pages[i])
    \* a list is returned at the first last page, with all orders read
    /\ orders_list_return.kind = "list" =>
           /\ PagesRead >= 1
           /\ IsLastPage(upstream_pages[PagesRead])
           /\ orders_list_return.orders
                  = OrdersOfPages(upstream_pages, PagesRead)
    \* the failure value is returned for a failed page only
    /\ orders_list_return.kind = "none" =>
           /\ PagesRead >= 1
           /\ ~ IsLastPage(upstream_pages[PagesRead])
           /\ ~ IsInnerPage(upstream_pages[PagesRead])
    \* an empty first page gives the empty list
    /\ (/\ PagesRead >= 1
        /\ upstream_pages[1].kind = "ok"
        /\ upstream_pages[1].orders = <<>>) =>
           /\ orders_list_return = [kind |-> "list", orders |-> <<>>]
           /\ orders_list_return # [kind |-> "none"]

\* The upstream holds a page that ends the paging.
ReportsLastPage == \E p \in 1..MaxPages : IsLastPage(upstream_pages[p])

\* C11: get_orders_list asks for consecutive pages from page 1, stops at the
\* first page that is empty or has currentPage >= totalPageCount, returns the
\* orders of all pages read in page order (the empty list, not the failure
\* value, when the first page is empty), and returns whenever the upstream
\* holds such a page.
C11_PagesReadUntilLastPage ==
    /\ []C11_Paging
    /\ (ReportsLastPage ~> orders_list_return.kind # "running")

\* Two pages were read and both pages' orders are returned in page order.
C11_Witness ==
    /\ orders_list_return = [kind |-> "list", orders |-> <<1, 2>>]
    /\ pages_requested = <<1, 2>>

---------------------------------------------------------------------------
(* Properties of the call-log fetch and of the report lines. *)

UisFailures == UisResponseKinds \ {"ok"}

\* What the UIS service answered to the section's request.
FetchedCallList ==
    UisCallsReport(uis_log, uis_date_from_str(report_date_msk_date),
                   uis_date_to_str(report_date_msk_date))

\* C12: when the call-log fetch fails (transport error, error payload,
\* malformed JSON, non-list data) get_uis_call_history returns the failure
\* value, which is not the empty call list, and the section returns the one
\* error line without counters or detail lines; an empty call list fetched
\* successfully gives the normal counters with every relevant order overdue.
C12_CallFetchFailureIsOneErrorLine ==
    /\ uis_response \in UisFailures =>
           /\ get_uis_call_history(uis_response, <<>>).is_none
           /\ get_uis_call_history(uis_response, <<>>)
                  # get_uis_call_history("ok", <<>>)
           /\ pc = "done"
           /\ report_output_lines = <<[kind |-> "error_uis"]>>
    /\ (pc = "done" /\ uis_response = "ok" /\ FetchedCallList = <<>>) =>
           /\ ~ get_uis_call_history(uis_response, FetchedCallList).is_none
           /\ report_output_lines[1]
                  = [kind |-> "summary", overdue |-> total_relevant_orders,
                     total |-> total_relevant_orders]
           /\ report_output_lines[2].kind = "outside_work_time"
           /\ report_output_lines[3].kind = "in_work_time"
           /\ \A k \in 1..Len(outcomes) :
                  outcomes[k].counted => outcomes[k].overdue

\* The fetch failed with an error payload after orders had been fetched.
C12_Witness ==
    /\ pc = "done"
    /\ uis_response = "error_payload"
    /\ all_orders # <<>>
    /\ report_output_lines = <<[kind |-> "error_uis"]>>

\* An outbound record of the fetched list with a phone and a start_time.
OutboundWithPhoneAndTime(call) ==
    /\ call.direction = "out"
    /\ Truthy(call.contact_phone_number)
    /\ Truthy(call.start_time)
    /\ Truthy(normalize_phone_number(call.contact_phone_number))

\* The fetched outbound records whose start_time parses, in list order.
ParseableOutbound ==
    SelectSeq(FetchedCallList, LAMBDA call :
        OutboundWithPhoneAndTime(call) /\ strptime_ok(call.start_time))

\* C13: an outbound call record whose start_time cannot be parsed is dropped
\* and does not abort the batch: every other outbound record with a phone and
\* a parseable start_time is in the list the contact search runs over, and
\* bounds the first contact of every order it qualifies for.
C13_UnparseableCallDropped ==
    (pc \in {"evaluate", "done"} /\ uis_response = "ok") =>
        /\ outgoing_calls_details =
               [k \in 1..Len(ParseableOutbound) |->
                   [phone_number |-> normalize_phone_number(
                        ParseableOutbound[k].contact_phone_number),
                    datetime_msk |-> strptime(ParseableOutbound[k].start_time)]]
        /\ \A k \in 1..Len(outcomes) : \A j \in 1..Len(ParseableOutbound) :
               LET o == outcomes[k]
                   call == ParseableOutbound[j]
               IN (/\ Classified(o)
                   /\ normalize_phone_number(call.contact_phone_number)
                          = o.phone
                   /\ strptime(call.start_time) >= o.created) =>
                      /\ o.first_contact # NoContact
                      /\ o.first_contact <= strptime(call.start_time)
        /\ pc = "done" => report_output_lines[1].kind = "summary"

\* The list starts with an outbound record that does not parse, and the
\* record after it is the first contact of an order.
C13_Witness ==
    /\ pc = "done"
    /\ uis_response = "ok"
    /\ Len(FetchedCallList) = 2
    /\ OutboundWithPhoneAndTime(FetchedCallList[1])
    /\ ~ strptime_ok(FetchedCallList[1].start_time)
    /\ ParseableOutbound = <<FetchedCallList[2]>>
    /\ \E k \in 1..Len(outcomes) :
           /\ Classified(outcomes[k])
           /\ outcomes[k].first_contact
                  = strptime(FetchedCallList[2].start_time)

\* The evaluated orders that came out overdue, in loop order.
OverdueOutcomes == SelectSeq(outcomes, LAMBDA o : o.overdue)

\* The run went through the loop and returned the report lines.
ReportRendered == pc = "done" /\ env = EnvNames /\ uis_response = "ok"

\* C18: the section's output is one summary line overdue/total, one line
\* with the out-of-hours count, one line with the in-hours count, and then
\* exactly one detail line per overdue order; an order that is on time has no
\* detail line, so there are overdue_count detail lines.
C18_OneDetailLinePerOverdueOrder ==
    ReportRendered =>
        /\ report_output_lines[1]
               = [kind |-> "summary", overdue |-> Len(OverdueOutcomes),
                  total |-> Cardinality({k \in 1..Len(outcomes) :
                                            outcomes[k].counted})]
        /\ report_output_lines[1].overdue = overdue_count
        /\ report_output_lines[2]
               = [kind |-> "outside_work_time",
                  count |-> orders_outside_work_time_count]
        /\ report_output_lines[3]
               = [kind |-> "in_work_time",
                  count |-> orders_in_work_time_count]
        /\ Len(report_output_lines) = 3 + overdue_count
        /\ \A j \in 1..Len(OverdueOutcomes) :
               LET line == report_output_lines[3 + j]
                   o == OverdueOutcomes[j]
               IN /\ line.kind = "detail"
                  /\ line.id = o.order.id
                  /\ line.created = o.order.createdAt
                  /\ line.deadline = strftime(o.deadline)
                  /\ line.contact = IF o.first_contact = NoContact
                                    THEN <<>>
                                    ELSE strftime(o.first_contact)
        /\ \A k \in 1..Len(outcomes) :
               ~ outcomes[k].overdue =>
                   \A i \in 4..Len(report_output_lines) :
                       report_output_lines[i].id # outcomes[k].order.id

\* Two relevant orders, one contacted in time and one overdue: one detail
\* line, for the overdue one.
C18_Witness ==
    /\ ReportRendered
    /\ total_relevant_orders = 2
    /\ overdue_count = 1
    /\ Len(report_output_lines) = 4
    /\ \E k \in 1..Len(outcomes) :
           outcomes[k].counted /\ ~ outcomes[k].overdue

---------------------------------------------------------------------------
(* The date helpers, each called with a date. *)

\* The last date the helpers are called with.
MaxDate == 20

InitDates ==
    /\ date_argument \in 0..MaxDate
    /\ next_working_day_start = NotCalled
    /\ report_datetimes = [start |-> NotCalled, end |-> NotCalled]
    /\ working_datetimes = [start |-> NotCalled, end |-> NotCalled]
    /\ SectionIdle /\ OrdersListIdle /\ PhonesIdle /\ MainIdle /\ RestIdle

CallNextWorkingDayStart ==
    /\ next_working_day_start = NotCalled
    /\ next_working_day_start' = get_next_working_day_start_msk(date_argument)
    /\ UNCHANGED <<date_argument, report_datetimes, working_datetimes,
                   outsideDates>>

CallReportDatetimes ==
    /\ report_datetimes.start = NotCalled
    /\ report_datetimes' = get_report_datetimes_msk(date_argument)
    /\ UNCHANGED <<date_argument, next_working_day_start, working_datetimes,
                   outsideDates>>

CallWorkingDatetimes ==
    /\ working_datetimes.start = NotCalled
    /\ working_datetimes' = get_working_datetimes_msk(date_argument)
    /\ UNCHANGED <<date_argument, next_working_day_start, report_datetimes,
                   outsideDates>>

NextDates ==
    \/ CallNextWorkingDayStart
    \/ CallReportDatetimes
    \/ CallWorkingDatetimes

SpecDates == InitDates /\ [][NextDates]_vars

\* C14: for every date D, get_next_working_day_start_msk(D) is 09:00 on the
\* first date after D that is a weekday: D+1 when D+1 is Monday to Friday,
\* the Monday after D otherwise; it is never a Saturday or a Sunday.
C14_NextWorkingDayStart ==
    next_working_day_start # NotCalled =>
        LET landed == DateOf(next_working_day_start)
        IN /\ next_working_day_start = Combine(landed, 9, 0, 0)
           /\ landed > date_argument
           /\ weekday(landed) \notin {5, 6}
           /\ \A d \in (date_argument + 1)..(landed - 1) :
                  weekday(d) \in {5, 6}
           /\ weekday(date_argument + 1) \in 0..4 =>
                  landed = date_argument + 1
           /\ weekday(date_argument + 1) \in {5, 6} =>
                  /\ weekday(landed) = 0
                  /\ landed - date_argument \in {2, 3}

\* Called with a Friday, the value is the Monday three days later.
C14_Witness ==
    /\ weekday(date_argument) = 4
    /\ next_working_day_start = Combine(date_argument + 3, 9, 0, 0)

\* C17: for every report date D the business-hours window and the full-day
\* window have start < end, and the full-day window of D contains the
\* business-hours window of D.
C17_WindowsOrderedAndNested ==
    (report_datetimes.start # NotCalled
     /\ working_datetimes.start # NotCalled) =>
        /\ working_datetimes.start < working_datetimes.end
        /\ report_datetimes.start < report_datetimes.end
        /\ report_datetimes.start <= working_datetimes.start
        /\ working_datetimes.end <= report_datetimes.end
        /\ DateOf(report_datetimes.start) = date_argument
        /\ DateOf(report_datetimes.end) = date_argument

\* Both windows of a Saturday have been computed.
C17_Witness ==
    /\ weekday(date_argument) = 5
    /\ report_datetimes = [start |-> Combine(date_argument, 0, 0, 0),
                           end |-> Combine(date_argument, 23, 59, 59)]
    /\ working_datetimes = [start |-> Combine(date_argument, 9, 0, 0),
                            end |-> Combine(date_argument, 20, 59, 59)]

---------------------------------------------------------------------------
(* normalize_phone_number, called with a raw string and then with its own  *)
(* value.                                                                  *)

\* Characters a raw string starts with, before a run of one digit.
MaxPrefix == 2

\* len(normalized_number) == 11 and == 10 in normalize_phone_number.
LenWithTrunkPrefix == 11
LenWithoutPrefix == 10

PrefixChars == {"8", "9", "7", "1", "+"}

RawPhones ==
    {prefix \o [i \in 1..k |-> "5"] :
        prefix \in SeqsUpTo(PrefixChars, MaxPrefix),
        k \in 0..LenWithTrunkPrefix}
    \cup {None, PhoneA8, PhoneA7plus, PhoneA10, PhoneA7, PhoneB,
          PhoneNoDigits}

InitPhones ==
    /\ raw_phone_number \in RawPhones
    /\ normalized_once = NotNormalized
    /\ normalized_twice = NotNormalized
    /\ SectionIdle /\ OrdersListIdle /\ DatesIdle /\ MainIdle /\ RestIdle

NormalizeRaw ==
    /\ normalized_once = NotNormalized
    /\ normalized_once' = normalize_phone_number(raw_phone_number)
    /\ UNCHANGED <<raw_phone_number, normalized_twice, outsidePhones>>

NormalizeAgain ==
    /\ normalized_once # NotNormalized
    /\ normalized_twice = NotNormalized
    /\ normalized_twice' = normalize_phone_number(normalized_once)
    /\ UNCHANGED <<raw_phone_number, normalized_once, outsidePhones>>

NextPhones ==
    \/ NormalizeRaw
    \/ NormalizeAgain

SpecPhones == InitPhones /\ [][NextPhones]_vars

\* The digits of a raw string, in order.
DigitsOf(raw) == SelectSeq(raw, LAMBDA c : c \in Digits)

\* C15: normalize_phone_number returns null for an empty or absent input;
\* otherwise it keeps the digits only, replaces the leading 8 of an 11-digit
\* result by 7, puts 7 before a 10-digit result that starts with 9, and
\* leaves any other digit string as it is; 89991234567 and 9991234567 both
\* give 79991234567.
C15_NormalizedPhone ==
    normalized_once # NotNormalized =>
        /\ raw_phone_number \in {None, <<>>} => normalized_once = None
        /\ raw_phone_number \notin {None, <<>>} =>
               LET d == DigitsOf(raw_phone_number)
               IN normalized_once =
                      IF Len(d) = LenWithTrunkPrefix /\ d[1] = "8"
                      THEN <<"7">> \o SubSeq(d, 2, Len(d))
                      ELSE IF Len(d) = LenWithoutPrefix /\ d[1] = "9"
                      THEN <<"7">> \o d
                      ELSE d
        /\ raw_phone_number \in {PhoneA8, PhoneA10} =>
               normalized_once = PhoneA7

\* 89991234567 has been normalized to 79991234567.
C15_Witness ==
    /\ raw_phone_number = PhoneA8
    /\ normalized_once = PhoneA7

\* C16: normalize_phone_number is idempotent on every raw string that holds
\* at least one digit: normalizing its value again gives the same value.
C16_NormalizeIdempotent ==
    (/\ normalized_twice # NotNormalized
     /\ raw_phone_number # None
     /\ DigitsOf(raw_phone_number) # <<>>) =>
        normalized_twice = normalized_once

\* 9991234567 gave 79991234567, and that gave 79991234567 again.
C16_Witness ==
    /\ raw_phone_number = PhoneA10
    /\ normalized_once = PhoneA7
    /\ normalized_twice = PhoneA7

---------------------------------------------------------------------------
(* main.py: the configuration check at import, then main().               *)

\* The variables main.py reads; all but TELEGRAM_TOPIC_ID are required.
MainEnvNames ==
    {"RETAILCRM_API_TOKEN", "UIS_API_TOKEN", "RETAILCRM_BASE_URL",
     "RETAILCRM_SITE_CODE", "RETAILCRM_BOT_API_TOKEN", "TELEGRAM_BOT_TOKEN",
     "TELEGRAM_CHAT_ID", "TELEGRAM_TOPIC_ID"}

\* MainRequiredEnvNames without TELEGRAM_CHAT_ID: the last check left out.
MainRequiredEnvNames_without_chat_id ==
    MainEnvNames \ {"TELEGRAM_TOPIC_ID", "TELEGRAM_CHAT_ID"}

MainRequiredEnvNames == MainEnvNames \ {"TELEGRAM_TOPIC_ID"}

\* def get_section_1_report_data(report_date_msk_date_obj,
\*                               retailcrm_base_url, api_key, site)
get_section_1_report_data_parameters ==
    <<"report_date_msk_date_obj", "retailcrm_base_url", "api_key", "site">>

\* get_section_1_report_data(REPORT_DATE_MSK, RETAILCRM_BASE_URL,
\*                           RETAILCRM_API_TOKEN) in main()
main_section_1_arguments ==
    <<"REPORT_DATE_MSK", "RETAILCRM_BASE_URL", "RETAILCRM_API_TOKEN">>

\* A call that binds positional arguments to parameters without defaults
\* raises TypeError unless there is one argument for each parameter.
CallRaisesTypeError(parameters, arguments) ==
    Len(arguments) # Len(parameters)

Returned(lines) == [raised |-> "", lines |-> lines]
Raised(exception) == [raised |-> exception, lines |-> <<>>]
ReportLine(section, kind) == [section |-> section, kind |-> kind]

\* get_section_1_report_data once it runs: the could-not-retrieve line
\* (managers or tasks), the counters, or AttributeError from
\* task.get('order', {}).get('id') on a task whose order is null.
Section1Results ==
    {Returned(<<ReportLine("1", "placeholder")>>),
     Returned(<<ReportLine("1", "counters")>>),
     Raised("AttributeError")}

\* get_section_2_report_data: four lines, all error lines or all counters,
\* or ValueError from strptime on a start_time of another format (there is
\* no try around it).
Section2Results ==
    {Returned([i \in 1..4 |-> ReportLine("2", "placeholder")]),
     Returned([i \in 1..4 |-> ReportLine("2", "counters")]),
     Raised("ValueError")}

\* get_section_3_report_data: one error line, or the three count lines
\* (detail lines left out here), or KeyError from order['id'].
Section3Results ==
    {Returned(<<ReportLine("3", "placeholder")>>),
     Returned([i \in 1..3 |-> ReportLine("3", "counters")]),
     Raised("KeyError")}

\* get_fio_report_data: one error line, or the summary lines.
FioResults ==
    {Returned(<<ReportLine("fio", "placeholder")>>),
     Returned([i \in 1..3 |-> ReportLine("fio", "counters")])}

\* A section call of main(), as section_calls records it.
SectionCall(function, result) ==
    [function |-> function,
     result |-> IF result.raised = "" THEN "lines" ELSE result.raised]

\* main(): the three section calls in turn, no try around any of them;
\* message 1 (the call of section 4 is commented out) is sent, then the name
\* check is made and message 2 is sent.  send_telegram_message_async catches
\* what a send raises, so a message is delivered or not.
main(s1, s2, s3, fio, sent_1, sent_2) ==
    LET call_1 == IF CallRaisesTypeError(get_section_1_report_data_parameters,
                                         main_section_1_arguments)
                  THEN Raised("TypeError") ELSE s1
        calls_1 == <<SectionCall("get_section_1_report_data", call_1)>>
        calls_2 == Append(calls_1, SectionCall("get_section_2_report_data", s2))
        calls_3 == Append(calls_2, SectionCall("get_section_3_report_data", s3))
        calls_4 == Append(calls_3, SectionCall("get_fio_report_data", fio))
        message_1 == <<ReportLine("header", "text"), ReportLine("header", "text")>>
                     \o call_1.lines \o <<ReportLine("", "blank")>>
                     \o s2.lines \o <<ReportLine("", "blank")>>
                     \o s3.lines \o <<ReportLine("", "blank")>>
        message_2 == <<ReportLine("header", "text")>> \o fio.lines
        telegram_1 == IF sent_1 THEN <<message_1>> ELSE <<>>
        telegram_2 == IF sent_2 THEN <<message_2>> ELSE <<>>
    IN IF call_1.raised # ""
       THEN [raised |-> call_1.raised, calls |-> calls_1, telegram |-> <<>>]
       ELSE IF s2.raised # ""
       THEN [raised |-> s2.raised, calls |-> calls_2, telegram |-> <<>>]
       ELSE IF s3.raised # ""
       THEN [raised |-> s3.raised, calls |-> calls_3, telegram |-> <<>>]
       ELSE IF fio.raised # ""
       THEN [raised |-> fio.raised, calls |-> calls_4,
             telegram |-> telegram_1]
       ELSE [raised |-> "", calls |-> calls_4,
             telegram |-> telegram_1 \o telegram_2]

InitMain ==
    /\ main_env \in SUBSET MainEnvNames
    /\ main_pc = "import"
    /\ section_calls = <<>>
    /\ telegram_messages = <<>>
    /\ escaped_exception = ""
    /\ main_report_date = NotCalled
    /\ SectionIdle /\ OrdersListIdle /\ DatesIdle /\ PhonesIdle /\ RestIdle

\* The module body: exit(1) when a required variable is not set.
LoadConfiguration ==
    /\ main_pc = "import"
    /\ main_pc' = IF MainRequiredEnvNames \subseteq main_env
                  THEN "main" ELSE "exit_1"
    /\ UNCHANGED <<main_env, section_calls, telegram_messages,
                   escaped_exception, main_report_date, outsideMain>>

\* if __name__ == "__main__": main().  Its first statement takes
\* REPORT_DATE_MSK, yesterday's date, from the clock.
Main ==
    /\ main_pc = "main"
    /\ main_report_date' \in ReportDates
    /\ \E s1 \in Section1Results, s2 \in Section2Results,
          s3 \in Section3Results, fio \in FioResults,
          sent_1 \in BOOLEAN, sent_2 \in BOOLEAN :
          LET run == main(s1, s2, s3, fio, sent_1, sent_2)
          IN /\ section_calls' = run.calls
             /\ telegram_messages' = run.telegram
             /\ escaped_exception' = run.raised
             /\ main_pc' = IF run.raised = "" THEN "returned" ELSE "raised"
    /\ UNCHANGED <<main_env, outsideMain>>

NextMain ==
    \/ LoadConfiguration
    \/ Main

SpecMain == InitMain /\ [][NextMain]_vars

MainEnded == main_pc \in {"returned", "raised"}

\* C19: a failure inside a report section does not leave it as an exception:
\* every section call made by main() returns a list of lines, main() is not
\* ended by an exception, and when it has ended all sections were called.
C19_NoExceptionLeavesASection ==
    /\ escaped_exception = ""
    /\ \A i \in 1..Len(section_calls) : section_calls[i].result = "lines"
    /\ MainEnded =>
           {section_calls[i].function : i \in 1..Len(section_calls)}
               = {"get_section_1_report_data", "get_section_2_report_data",
                  "get_section_3_report_data", "get_fio_report_data"}

\* The sections of the report.
ReportSections == {"1", "2", "3", "4", "fio"}

\* The lines delivered to the chat, over all messages.
DeliveredLines ==
    UNION {{telegram_messages[m][l] : l \in 1..Len(telegram_messages[m])} :
              m \in 1..Len(telegram_messages)}

\* C20: the report main() delivers has, for each of the sections 1, 2, 3, 4
\* and the name check, its counters or its could-not-retrieve line: when
\* main() has ended, no section is missing from what was delivered.
C20_NoSectionMissing ==
    MainEnded =>
        \A section \in ReportSections :
            \E line \in DeliveredLines :
                /\ line.section = section
                /\ line.kind \in {"counters", "placeholder"}

---------------------------------------------------------------------------
(* Properties of the configuration check. *)

\* The credentials, the base URL and the two identifiers a run needs.
RequiredSettings ==
    {"RETAILCRM_API_TOKEN", "UIS_API_TOKEN", "RETAILCRM_BOT_API_TOKEN",
     "TELEGRAM_BOT_TOKEN", "RETAILCRM_BASE_URL", "RETAILCRM_SITE_CODE",
     "TELEGRAM_CHAT_ID"}

SettingMissing == \E name \in RequiredSettings : name \notin main_env

\* C21: when a required credential or base URL is not set, the run ends at
\* the configuration check: main() is never entered, so no report date or
\* window is computed, no section is called and no message is sent.
C21_MissingSettingAbortsBeforeAnyWork ==
    SettingMissing =>
        /\ main_pc \in {"import", "exit_1"}
        /\ main_report_date = NotCalled
        /\ section_calls = <<>>
        /\ telegram_messages = <<>>

\* The run has ended with exit(1) and only the chat id was missing.
C21_Witness ==
    /\ main_pc = "exit_1"
    /\ main_env = MainEnvNames \ {"TELEGRAM_CHAT_ID"}

---------------------------------------------------------------------------
(* One upstream request of a fetch: requests.get / requests.post as each   *)
(* fetch function calls it, against an upstream that answers, answers with *)
(* an error, refuses the connection or never answers.                      *)

FirstIdle ==
    SectionIdle /\ OrdersListIdle /\ DatesIdle /\ PhonesIdle /\ MainIdle

\* timeout=None, the default of requests: wait for the answer without limit.
NoTimeout == 0 - 1

FetchSite(function, line, timeout) ==
    [function |-> function, line |-> line, timeout |-> timeout]

\* The requests.get / requests.post calls of the sources, each with the
\* timeout it passes.
FetchSites ==
    {FetchSite("report_section_1.get_order_status", 101, NoTimeout),
     FetchSite("report_section_1.get_managers", 134, NoTimeout),
     FetchSite("report_section_1.get_tasks_due_in_period", 173, NoTimeout),
     FetchSite("report_section_2.get_uis_call_history", 44, NoTimeout),
     FetchSite("report_section_2.check_retailcrm_chat_response", 106, NoTimeout),
     FetchSite("report_section_2.check_retailcrm_chat_response", 134, NoTimeout),
     FetchSite("report_section_2.check_retailcrm_chat_response", 169, NoTimeout),
     FetchSite("report_section_3.get_orders_list", 120, NoTimeout),
     FetchSite("report_section_3.get_uis_call_history", 182, NoTimeout),
     FetchSite("report_section_4.get_dialog_messages", 57, 5),
     FetchSite("report_section_4.get_active_dialogs", 94, 15),
     FetchSite("report_section_fio.get_retailcrm_orders", 98, NoTimeout)}

UpstreamBehaviours == {"answers", "http_error", "refuses", "silent"}

InitFetch ==
    /\ fetch_site \in FetchSites
    /\ upstream_behaviour \in UpstreamBehaviours
    /\ fetch_elapsed = 0
    /\ fetch_state = "waiting"
    /\ FirstIdle /\ SplitIdle /\ SendIdle /\ RunIdle /\ TwoRunsIdle
    /\ Section2Idle

\* A second passes and the request is still waiting.  Seconds are counted
\* for a request that has a timeout only.
Wait ==
    /\ fetch_state = "waiting"
    /\ fetch_site.timeout # NoTimeout
    /\ fetch_elapsed < fetch_site.timeout
    /\ fetch_elapsed' = fetch_elapsed + 1
    /\ UNCHANGED <<fetch_site, upstream_behaviour, fetch_state, outsideFetch>>

\* The upstream answers: the body is used, or raise_for_status / the
\* connection error raises a RequestException, which every fetch catches.
UpstreamAnswers ==
    /\ fetch_state = "waiting"
    /\ upstream_behaviour # "silent"
    /\ fetch_site.timeout # NoTimeout => fetch_elapsed < fetch_site.timeout
    /\ fetch_state' = IF upstream_behaviour = "answers"
                      THEN "response" ELSE "failure"
    /\ UNCHANGED <<fetch_site, upstream_behaviour, fetch_elapsed, outsideFetch>>

\* The timeout passed to requests is over: requests.exceptions.Timeout, a
\* RequestException, which the fetch catches.
TimeoutExpires ==
    /\ fetch_state = "waiting"
    /\ fetch_site.timeout # NoTimeout
    /\ fetch_elapsed = fetch_site.timeout
    /\ fetch_state' = "failure"
    /\ UNCHANGED <<fetch_site, upstream_behaviour, fetch_elapsed, outsideFetch>>

NextFetch ==
    \/ Wait
    \/ UpstreamAnswers
    \/ TimeoutExpires

SpecFetch == InitFetch /\ [][NextFetch]_vars

\* Time passes, an upstream that answers does so, a timeout that is set runs
\* out.
SpecFetchFair ==
    /\ SpecFetch
    /\ WF_vars(Wait)
    /\ WF_vars(UpstreamAnswers)
    /\ WF_vars(TimeoutExpires)

\* C22: every upstream fetch is bounded by a timeout: also when the upstream
\* never answers, the request ends, with a response or with the failure
\* result.
C22_EveryFetchEnds == <>(fetch_state \in {"response", "failure"})

---------------------------------------------------------------------------
(* split_message(text, limit): each call cuts one part off the text and    *)
(* calls itself with the remainder.  A text is the sequence of its         *)
(* characters.                                                             *)

MaxTextLen == 12
MaxLimit == 10
MaxNewlines == 3

\* More calls than a text of the model needs when every call cuts at least
\* one character off; the interpreter ends a deeper recursion with
\* RecursionError.
RecursionLimit == MaxTextLen + 2

Newline == "\n"

Letters ==
    <<"a", "b", "c", "d", "e", "f", "g", "h", "i", "j", "k", "l", "m", "n",
      "o", "p">>

\* The texts: up to MaxTextLen characters, up to MaxNewlines of them
\* newlines at any places, the other characters all different.
TextsOfLen(n) ==
    {[i \in 1..n |-> IF i \in newlines THEN Newline ELSE Letters[i]] :
        newlines \in {S \in SUBSET (1..n) : Cardinality(S) <= MaxNewlines}}

Texts == UNION {TextsOfLen(n) : n \in 0..MaxTextLen}

SetMax(S) == CHOOSE x \in S : \A y \in S : y <= x

\* text.rfind('\n', 0, limit): the index, from 0, of the last newline among
\* the first limit characters; -1 when there is none.
rfind_newline(text, limit) ==
    LET found == {i \in 1..Len(text) : i <= limit /\ text[i] = Newline}
    IN IF found = {} THEN 0 - 1 ELSE SetMax(found) - 1

\* s.lstrip('\n')
RECURSIVE lstrip_newlines(_)
lstrip_newlines(s) ==
    IF s # <<>> /\ Head(s) = Newline THEN lstrip_newlines(Tail(s)) ELSE s

\* split_pos with every newline accepted, however early in the text.
split_pos_any_newline(text, limit) ==
    LET found == rfind_newline(text, limit)
    IN IF found = 0 - 1 THEN limit ELSE found

\* split_pos = text.rfind('\n', 0, limit)
\* if split_pos == -1 or split_pos < limit * 0.9: split_pos = limit
\* (split_pos < limit * 0.9 in whole numbers: 10 * split_pos < 9 * limit).
split_pos(text, limit) ==
    LET found == rfind_newline(text, limit)
    IN IF found = 0 - 1 \/ 10 * found < 9 * limit THEN limit ELSE found

\* text[:pos]
part_of(text, pos) == SubSeq(text, 1, pos)

\* The remainder with the character at the cut dropped, newline or not.
remainder_of_drop_one(text, pos) ==
    lstrip_newlines(SubSeq(text, pos + 2, Len(text)))

\* text[pos:].lstrip('\n')
remainder_of(text, pos) == lstrip_newlines(SubSeq(text, pos + 1, Len(text)))

InitSplit ==
    /\ split_text \in Texts
    /\ split_limit \in 0..MaxLimit
    /\ split_remainder = split_text
    /\ split_chunks = <<>>
    /\ split_cuts = <<>>
    /\ split_depth = 0
    /\ split_state = "called"
    /\ FirstIdle /\ FetchIdle /\ SendIdle /\ RunIdle /\ TwoRunsIdle
    /\ Section2Idle

\* One call of split_message with the text that is left.
SplitMessageCall ==
    /\ split_state = "called"
    /\ split_depth' = split_depth + 1
    /\ IF split_depth >= RecursionLimit
       THEN /\ split_state' = "RecursionError"
            /\ UNCHANGED <<split_remainder, split_chunks, split_cuts>>
       ELSE IF Len(split_remainder) <= split_limit
       THEN /\ split_chunks' = Append(split_chunks, split_remainder)
            /\ split_state' = "returned"
            /\ UNCHANGED <<split_remainder, split_cuts>>
       ELSE LET pos == split_pos(split_remainder, split_limit)
                part == part_of(split_remainder, pos)
            IN /\ split_chunks' = Append(split_chunks, part)
               /\ split_cuts' = Append(split_cuts,
                                       [text |-> split_remainder, part |-> part])
               /\ split_remainder' = remainder_of(split_remainder, pos)
               /\ UNCHANGED split_state
    /\ UNCHANGED <<split_text, split_limit, outsideSplit>>

NextSplit == SplitMessageCall

SpecSplit == InitSplit /\ [][NextSplit]_vars

\* A call that was made runs.
SpecSplitFair == SpecSplit /\ WF_vars(SplitMessageCall)

---------------------------------------------------------------------------
(* Properties of split_message. *)

\* The places, counted from 0, of the newlines among the first limit
\* characters of a text.
NewlinesWithin(text, limit) ==
    {q \in 0..(Len(text) - 1) : q < limit /\ text[q + 1] = Newline}

\* Where a text longer than the limit is to be cut: at the last newline
\* among its first limit characters when that one lies in the last tenth of
\* the limit, at limit otherwise.
CutPlace(text, limit) ==
    LET within == NewlinesWithin(text, limit)
    IN IF within # {} /\ 10 * SetMax(within) >= 9 * limit
       THEN SetMax(within)
       ELSE limit

SplitReturns == split_state # "RecursionError"

ChunksWithinLimit ==
    \A i \in DOMAIN split_chunks : Len(split_chunks[i]) <= split_limit

ShortTextIsOneChunk ==
    (split_state = "returned" /\ Len(split_text) <= split_limit)
        => split_chunks = <<split_text>>

CutsAsStated ==
    \A i \in DOMAIN split_cuts :
        LET cut == split_cuts[i]
        IN /\ Len(cut.text) > split_limit
           /\ cut.part = SubSeq(cut.text, 1, CutPlace(cut.text, split_limit))
           /\ cut.part = split_chunks[i]

RECURSIVE Concat(_)
Concat(chunks) ==
    IF chunks = <<>> THEN <<>> ELSE Head(chunks) \o Concat(Tail(chunks))

NonNewlines(text) == SelectSeq(text, LAMBDA c : c # Newline)

LeadingNewlines(text) ==
    Cardinality({n \in 1..Len(text) :
                    \A i \in 1..n : text[i] = Newline})

\* The text is the chunks in order, with nothing but newlines between one
\* chunk and the next.
RECURSIVE Reassembles(_, _)
Reassembles(text, chunks) ==
    IF chunks = <<>>
    THEN FALSE
    ELSE LET chunk == Head(chunks)
             rest == SubSeq(text, Len(chunk) + 1, Len(text))
         IN /\ Len(chunk) <= Len(text)
            /\ SubSeq(text, 1, Len(chunk)) = chunk
            /\ IF Len(chunks) = 1
               THEN rest = <<>>
               ELSE \E k \in 0..LeadingNewlines(rest) :
                       Reassembles(SubSeq(rest, k + 1, Len(rest)),
                                   Tail(chunks))

KeepsText ==
    /\ SplitReturns
    /\ split_state = "returned" =>
           /\ Reassembles(split_text, split_chunks)
           /\ NonNewlines(Concat(split_chunks)) = NonNewlines(split_text)

---------------------------------------------------------------------------
(* send_telegram_message_async: the parts of one message are sent in a for *)
(* loop that sits in one try.                                              *)

MaxParts == 3

\* Parts as split_message can return them: with text, of whitespace only,
\* and empty (the only part of an empty text).
PartValues == {<<"a">>, <<"b">>, <<" ", Newline>>, <<>>}

Whitespace == {" ", Newline}

\* not part.strip()
strip_is_empty(part) == \A i \in DOMAIN part : part[i] \in Whitespace

\* The except clause inside the loop body: the loop goes on with the next
\* part.
position_after_exception_next_part(idx, parts) == idx + 1

\* The for loop is inside the try, so an exception of bot.send_message
\* leaves the loop: no position is left.
position_after_exception(idx, parts) == Len(parts) + 1

InitSend ==
    /\ message_parts \in UNION {[1..n -> PartValues] : n \in 1..MaxParts}
    /\ send_idx = 1
    /\ send_delivered = <<>>
    /\ send_failed_at = 0
    /\ send_state = "bot"
    /\ FirstIdle /\ FetchIdle /\ SplitIdle /\ RunIdle /\ TwoRunsIdle
    /\ Section2Idle

\* bot = Bot(token=bot_token), before the try: the client is made, or the
\* constructor raises and the exception leaves the function.
CreateBot ==
    /\ send_state = "bot"
    /\ send_state' \in {"loop", "raised"}
    /\ UNCHANGED <<message_parts, send_idx, send_delivered, send_failed_at,
                   outsideSend>>

\* One iteration of the for loop: a part of whitespace is passed over;
\* another part is sent and received, or bot.send_message raises.
SendPart ==
    /\ send_state = "loop"
    /\ send_idx <= Len(message_parts)
    /\ LET part == message_parts[send_idx]
       IN IF strip_is_empty(part)
          THEN /\ send_idx' = send_idx + 1
               /\ UNCHANGED <<send_delivered, send_failed_at>>
          ELSE \/ /\ send_delivered' = Append(send_delivered, part)
                  /\ send_idx' = send_idx + 1
                  /\ UNCHANGED send_failed_at
               \/ /\ send_failed_at' = send_idx
                  /\ send_idx' = position_after_exception(send_idx,
                                                          message_parts)
                  /\ UNCHANGED send_delivered
    /\ UNCHANGED <<message_parts, send_state, outsideSend>>

\* The loop is over or was left by the exception: the finally clause closes
\* the session and the function returns.
CloseSession ==
    /\ send_state = "loop"
    /\ send_idx > Len(message_parts)
    /\ send_state' = "returned"
    /\ UNCHANGED <<message_parts, send_idx, send_delivered, send_failed_at,
                   outsideSend>>

NextSend ==
    \/ CreateBot
    \/ SendPart
    \/ CloseSession

SpecSend == InitSend /\ [][NextSend]_vars

\* The parts that are sent: those with something besides whitespace.
NonBlankParts == SelectSeq(message_parts, LAMBDA part : ~ strip_is_empty(part))

IsPrefix(s, t) == Len(s) <= Len(t) /\ s = SubSeq(t, 1, Len(s))

\* The parts at the places before idx that are sent.
NonBlankBefore(idx) ==
    SelectSeq(SubSeq(message_parts, 1, idx - 1),
              LAMBDA part : ~ strip_is_empty(part))

\* C24: the chunks of a message are sent one at a time in list order: what
\* the chat has received is at every moment the first so many non-blank
\* chunks; while no send has failed it is all of them up to the loop's
\* place, and after a failed send it is those before the failed one and no
\* further chunk is ever sent.
C24_DeliveredPrefix ==
    /\ IsPrefix(send_delivered, NonBlankParts)
    /\ send_failed_at = 0 =>
           send_delivered =
               NonBlankBefore(IF send_idx > Len(message_parts)
                              THEN Len(message_parts) + 1 ELSE send_idx)
    /\ send_failed_at # 0 =>
           /\ send_delivered = NonBlankBefore(send_failed_at)
           /\ send_idx > Len(message_parts)

\* The send of the second of three non-blank parts failed and the function
\* has returned: the chat has the first part only.
C24_Witness ==
    /\ send_state = "returned"
    /\ Len(NonBlankParts) = 3
    /\ send_failed_at = 2
    /\ send_delivered = <<message_parts[1]>>

---------------------------------------------------------------------------
(* main(), statement by statement, with the clock it reads.  Each section  *)
(* call is taken to pass the section its arguments: the section runs and   *)
(* returns its lines or raises.  (As main() is written, its first section  *)
(* call passes three arguments for four parameters, which is what SpecMain *)
(* follows; the statements after that call are modelled here.)             *)

\* MSK_TZ = timezone(timedelta(hours=3))
MSK_UTC_OFFSET == 3

\* Instants around the midnight between day 3 and day 4, Moscow time, and
\* around 03:00 of day 4, which is midnight for a server on UTC.
ClockInstants ==
    {Combine(3, 23, 59, 50), Combine(4, 0, 0, 10),
     Combine(4, 2, 59, 50), Combine(4, 3, 0, 10)}

\* The zone of the server: UTC or Moscow.
ServerUtcOffsets == {0, MSK_UTC_OFFSET}

\* datetime.now(): the naive local time of the server.
datetime_now(clock, utc_offset) ==
    clock - (MSK_UTC_OFFSET - utc_offset) * 3600

\* datetime.now(MSK_TZ)
datetime_now_msk(clock) == clock

\* get_yesterday_msk_range(): yesterday by the clock, in Moscow time.
get_yesterday_msk_range(clock) ==
    LET yesterday_date == DateOf(datetime_now_msk(clock) - Day)
    IN [start |-> Combine(yesterday_date, 0, 0, 0),
        end |-> Combine(yesterday_date, 23, 59, 59)]

\* What a call of send_telegram_message_async comes to: the message is
\* received, the send raises and the exception is caught, or Bot() raises.
SendOutcomes == {"delivered", "not delivered", "raised"}

Assembled(section, date) == [section |-> section, date |-> date]

\* The sections whose lines main() holds.
AssembledSections ==
    {run_assembled[i].section : i \in DOMAIN run_assembled}

\* A message as the chat receives it: which message, and the sections that
\* were assembled when it was sent.
Delivered(message) == [message |-> message, assembled |-> AssembledSections]

InitRun ==
    /\ wall_clock \in ClockInstants
    /\ server_utc_offset \in ServerUtcOffsets
    /\ run_pc = "start"
    /\ run_report_date = NotCalled
    /\ run_assembled = <<>>
    /\ run_delivered = <<>>
    /\ FirstIdle /\ FetchIdle /\ SplitIdle /\ SendIdle /\ TwoRunsIdle
    /\ Section2Idle

\* Time passes while main() runs.
ClockAdvances ==
    /\ run_pc \notin {"returned", "raised"}
    /\ \E t \in ClockInstants : t > wall_clock /\ wall_clock' = t
    /\ UNCHANGED <<server_utc_offset, run_pc, run_report_date, run_assembled,
                   run_delivered, outsideRun>>

\* REPORT_DATE_MSK = (datetime.now() - timedelta(days=1)).date()
ComputeReportDate ==
    /\ run_pc = "start"
    /\ run_report_date' =
           DateOf(datetime_now(wall_clock, server_utc_offset) - Day)
    /\ run_pc' = "section_1"
    /\ UNCHANGED <<wall_clock, server_utc_offset, run_assembled,
                   run_delivered, outsideRun>>

\* A section call with REPORT_DATE_MSK and message_1_lines.extend(...); an
\* exception of the section ends main().
CallSection(section, results, then) ==
    /\ \E result \in results :
          IF result.raised = ""
          THEN /\ run_assembled' =
                      Append(run_assembled, Assembled(section, run_report_date))
               /\ run_pc' = then
          ELSE /\ run_pc' = "raised"
               /\ UNCHANGED run_assembled
    /\ UNCHANGED <<wall_clock, server_utc_offset, run_report_date,
                   run_delivered, outsideRun>>

\* section_1_output = get_section_1_report_data(REPORT_DATE_MSK, ...)
CallSection1 ==
    /\ run_pc = "section_1"
    /\ CallSection("1", Section1Results, "section_2")

\* section_2_output = get_section_2_report_data(report_date_msk=...)
CallSection2 ==
    /\ run_pc = "section_2"
    /\ CallSection("2", Section2Results, "section_3")

\* section_3_output = get_section_3_report_data(REPORT_DATE_MSK)
CallSection3 ==
    /\ run_pc = "section_3"
    /\ CallSection("3", Section3Results, "send_1")

\* asyncio.run(send_telegram_message_async(message, ...))
SendMessage(message, then) ==
    /\ \E outcome \in SendOutcomes :
          /\ run_delivered' = IF outcome = "delivered"
                              THEN Append(run_delivered, Delivered(message))
                              ELSE run_delivered
          /\ run_pc' = IF outcome = "raised" THEN "raised" ELSE then
    /\ UNCHANGED <<wall_clock, server_utc_offset, run_report_date,
                   run_assembled, outsideRun>>

\* message_1 = "\n".join(message_1_lines) and its send.
SendMessage1 ==
    /\ run_pc = "send_1"
    /\ SendMessage(1, "fio")

\* section_fio_output = get_fio_report_data(): no argument; the function
\* takes its day from get_yesterday_msk_range().
CallFio ==
    /\ run_pc = "fio"
    /\ LET range == get_yesterday_msk_range(wall_clock)
       IN run_assembled' =
              Append(run_assembled, Assembled("fio", DateOf(range.start)))
    /\ run_pc' = "send_2"
    /\ UNCHANGED <<wall_clock, server_utc_offset, run_report_date,
                   run_delivered, outsideRun>>

\* message_2 = "\n".join(message_2_lines) and its send.
SendMessage2 ==
    /\ run_pc = "send_2"
    /\ SendMessage(2, "returned")

NextRun ==
    \/ ClockAdvances
    \/ ComputeReportDate
    \/ CallSection1
    \/ CallSection2
    \/ CallSection3
    \/ SendMessage1
    \/ CallFio
    \/ SendMessage2

SpecRun == InitRun /\ [][NextRun]_vars

\* The sections main() assembles: sections 1, 2, 3 and the name check.
AssembledByMain == {"1", "2", "3", "fio"}

---------------------------------------------------------------------------
(* get_section_3_report_data run for a report date and for the next one,   *)
(* RetailCRM holding the same order at both runs.                          *)

\* Monday to Sunday.
FirstReportDates == 0..6

\* filter[createdAtFrom] / filter[createdAtTo] of the section's request: is
\* an order created at this instant among the orders fetched for the date.
fetched_for(created, date) ==
    /\ start_time_for_api(date) <= created
    /\ created <= get_report_datetimes_msk(date).end + 1

\* What a run for the date makes of the order: the locals of the loop body
\* when the order is among those fetched (no call is in the log).
RunOf(order, date) ==
    IF strptime_ok(order.createdAt)
       /\ ~ fetched_for(strptime(order.createdAt), date)
    THEN [date |-> date, fetched |-> FALSE,
          outcome |-> [counted |-> FALSE, cls |-> "not fetched"]]
    ELSE [date |-> date, fetched |-> TRUE,
          outcome |-> EvaluateOrder(order, date, <<>>)]

InitTwoRuns ==
    /\ first_report_date \in FirstReportDates
    /\ \E t \in OrderTimes(first_report_date)
                  \cup OrderTimes(first_report_date + 1) :
          upstream_order = Order(1, "1001", t, PhoneA8, <<>>)
    /\ runs = <<>>
    /\ FirstIdle /\ FetchIdle /\ SplitIdle /\ SendIdle /\ RunIdle
    /\ Section2Idle

\* The run for the first report date.
RunReportDate ==
    /\ runs = <<>>
    /\ runs' = <<RunOf(upstream_order, first_report_date)>>
    /\ UNCHANGED <<first_report_date, upstream_order, outsideTwoRuns>>

\* The run of the next day, for the next report date.
RunNextReportDate ==
    /\ Len(runs) = 1
    /\ runs' = Append(runs, RunOf(upstream_order, first_report_date + 1))
    /\ UNCHANGED <<first_report_date, upstream_order, outsideTwoRuns>>

NextTwoRuns ==
    \/ RunReportDate
    \/ RunNextReportDate

SpecTwoRuns == InitTwoRuns /\ [][NextTwoRuns]_vars

\* The runs that counted the order in total_relevant_orders.
CountingRuns == {i \in DOMAIN runs : runs[i].outcome.counted}

\* C27: over the runs for two consecutive report dates no order is counted
\* in total_relevant_orders by both: an order is relevant for at most one
\* report date and so never gets two deadlines.
C27_RelevantForOneReportDate == Cardinality(CountingRuns) <= 1

\* C30: every order a run counts as relevant, of whatever class and on
\* whatever day of the week, has a contact deadline at least 10 minutes
\* after its creation; the deadline is never at or before the creation.
C30_DeadlineAtLeastTenMinutesLater ==
    \A i \in CountingRuns :
        LET o == runs[i].outcome
        IN /\ o.cls \in {"in_hours", "same_day_late", "overnight"}
           /\ o.deadline >= o.created + 10 * 60
           /\ o.deadline > o.created

\* An order created at 08:59:59 of a Saturday was counted as an overnight
\* order by that day's run.
C30_Witness ==
    /\ Len(runs) = 2
    /\ weekday(runs[2].date) = 5
    /\ runs[2].outcome.counted
    /\ runs[2].outcome.cls = "overnight"
    /\ runs[2].outcome.created = Combine(runs[2].date, 8, 59, 59)

\* ---------------------------------------------------------------------
\* get_section_2_report_data (report_section_2.py): the counts of section 2
\* from one call log of UIS and the chat messages RetailCRM holds.
\* ---------------------------------------------------------------------

\* Most calls in the call log.
MaxUisCalls == 3

\* No chat message of the customer.
NoMessage == 0 - 1

Callers == {PhoneA7, PhoneB}

\* start_time of the calls: 10:00:00, 100 s later and 500 s later.
CallStartTimes == {<<0, 10, 0, 0>>, <<0, 10, 1, 40>>, <<0, 10, 8, 20>>}

\* createdAt of the chat message: 199 s after 10:00:00, one second before
\* the window of a call missed at 10:08:20 opens.
ChatMessageTimes == {Combine(0, 10, 3, 19)}

UisCall(direction, is_lost, duration, phone, start_time) ==
    [direction |-> direction, is_lost |-> is_lost,
     call_session_duration |-> duration, contact_phone_number |-> phone,
     start_time |-> start_time]

\* The calls a log is made of: lost inbound calls longer than 10 s from
\* both numbers and from a hidden number, a lost call of exactly 10 s, an
\* answered call, and outbound calls to both numbers.
UisCallChoices ==
    {UisCall("in", TRUE, 11, p, t) : p \in Callers, t \in CallStartTimes}
    \cup {UisCall("in", TRUE, 11, None, <<0, 10, 0, 0>>),
          UisCall("in", TRUE, 10, PhoneA7, <<0, 10, 0, 0>>),
          UisCall("in", FALSE, 11, PhoneA7, <<0, 10, 0, 0>>)}
    \cup {UisCall("out", FALSE, 11, p, t) : p \in Callers,
                                             t \in CallStartTimes}

UisCallLists ==
    UNION {[1..n -> UisCallChoices] : n \in 0..MaxUisCalls}

\* How the requests of one check_retailcrm_chat_response call end: all
\* answer; one answers with an error status (raise_for_status raises and
\* the handler returns False); the first one gets no response at all (its
\* handler reads the unassigned local `response`: UnboundLocalError).
ChatRequestOutcomes == {"answers", "http_error", "no_response"}

\* if is_lost is True and call_duration > 10, for an inbound call
is_missed_call(call) ==
    /\ call.direction = "in"
    /\ call.is_lost = TRUE
    /\ call.call_session_duration > 10

has_phone_and_start_time(call) ==
    call.contact_phone_number # None /\ call.start_time # None

\* The first loop: missed_calls_count, unique_callers, missed_call_details.
missed_calls_count_of(calls) ==
    Len(SelectSeq(calls, is_missed_call))

unique_callers_of(calls) ==
    {calls[i].contact_phone_number :
        i \in {j \in DOMAIN calls :
                  /\ calls[j].direction = "in"
                  /\ calls[j].contact_phone_number # None}}

missed_call_details_of(calls) ==
    LET detailed(call) == is_missed_call(call) /\ has_phone_and_start_time(call)
        kept == SelectSeq(calls, detailed)
    IN  [i \in 1..Len(kept) |->
            [phone_number |-> kept[i].contact_phone_number,
             start_time_unix |-> strptime(kept[i].start_time)]]

\* The second loop: the start times of the outbound calls of each number.
outgoing_calls_by_number_of(calls) ==
    LET dialled(call) == call.direction = "out" /\ has_phone_and_start_time(call)
        out_calls == SelectSeq(calls, dialled)
        numbers == {out_calls[i].contact_phone_number : i \in DOMAIN out_calls}
    IN  [p \in numbers |->
            LET to_p(call) == call.contact_phone_number = p
                calls_to_p == SelectSeq(out_calls, to_p)
            IN  [i \in 1..Len(calls_to_p) |-> strptime(calls_to_p[i].start_time)]]

\* out_time_unix - missed_time_unix of the outbound calls placed after the
\* missed call.
callback_time_diffs(missed_phone, missed_time_unix, by_number) ==
    IF missed_phone \in DOMAIN by_number
    THEN {by_number[missed_phone][i] - missed_time_unix :
             i \in {j \in DOMAIN by_number[missed_phone] :
                       by_number[missed_phone][j] > missed_time_unix}}
    ELSE {}

SetMin(S) == CHOOSE x \in S : \A y \in S : x <= y

\* customer-messages with filter[createdAtFrom] = missed call - 300 s
chat_message_in_window(messages, phone_number, missed_call_time_unix) ==
    /\ messages[phone_number] # NoMessage
    /\ messages[phone_number] >= missed_call_time_unix - 300

check_retailcrm_chat_response(messages, phone_number, missed_call_time_unix, outcome) ==
    /\ outcome = "answers"
    /\ chat_message_in_window(messages, phone_number, missed_call_time_unix)

\* unresponded_calls_count = missed_calls_count - len(responded_to_missed_numbers)
unresponded_calls_count_of(missed, responded_numbers) ==
    missed - Cardinality(responded_numbers)

InitSection2 ==
    /\ \E is_none \in BOOLEAN :
       \E calls \in (IF is_none THEN {<<>>} ELSE UisCallLists) :
          uis_call_history = [is_none |-> is_none, all_calls |-> calls]
    /\ chat_messages \in [Callers -> ChatMessageTimes \cup {NoMessage}]
    /\ section_2_pc = "called"
    /\ missed_calls_count = 0
    /\ unique_callers = {}
    /\ missed_call_details = <<>>
    /\ outgoing_calls_by_number = <<>>
    /\ missed_idx = 0
    /\ responded_to_missed_numbers = {}
    /\ late_callbacks_count = 0
    /\ chat_request_failed = FALSE
    /\ section_2_report = <<>>
    /\ FirstIdle /\ FetchIdle /\ SplitIdle /\ SendIdle /\ RunIdle
    /\ TwoRunsIdle

\* if all_calls is None: the four error lines are returned.
UisHistoryFailed ==
    /\ section_2_pc = "called"
    /\ uis_call_history.is_none
    /\ section_2_pc' = "returned_error"
    /\ UNCHANGED <<uis_call_history, chat_messages, missed_calls_count,
                   unique_callers, missed_call_details,
                   outgoing_calls_by_number, missed_idx,
                   responded_to_missed_numbers, late_callbacks_count,
                   chat_request_failed, section_2_report, outsideSection2>>

\* The loop over all_calls and the loop over out_calls.
ClassifyCalls ==
    /\ section_2_pc = "called"
    /\ ~uis_call_history.is_none
    /\ missed_calls_count' = missed_calls_count_of(uis_call_history.all_calls)
    /\ unique_callers' = unique_callers_of(uis_call_history.all_calls)
    /\ missed_call_details' =
           missed_call_details_of(uis_call_history.all_calls)
    /\ outgoing_calls_by_number' =
           outgoing_calls_by_number_of(uis_call_history.all_calls)
    /\ missed_idx' = 1
    /\ section_2_pc' = "checking"
    /\ UNCHANGED <<uis_call_history, chat_messages,
                   responded_to_missed_numbers, late_callbacks_count,
                   chat_request_failed, section_2_report, outsideSection2>>

\* One iteration of `for missed_call in missed_call_details`.
CheckMissedCall ==
    /\ section_2_pc = "checking"
    /\ missed_idx <= Len(missed_call_details)
    /\ \E outcome \in ChatRequestOutcomes :
        LET missed_phone == missed_call_details[missed_idx].phone_number
            missed_time_unix ==
                missed_call_details[missed_idx].start_time_unix
            diffs == callback_time_diffs(missed_phone, missed_time_unix,
                                         outgoing_calls_by_number)
            found_callback_call == diffs # {}
            chat_responded ==
                check_retailcrm_chat_response(chat_messages, missed_phone,
                                              missed_time_unix, outcome)
            found_any_response == found_callback_call \/ chat_responded
        IN  IF outcome = "no_response"
            THEN /\ section_2_pc' = "raised"
                 /\ chat_request_failed' = TRUE
                 /\ UNCHANGED <<missed_idx, responded_to_missed_numbers,
                                late_callbacks_count>>
            ELSE /\ responded_to_missed_numbers' =
                        IF found_any_response
                        THEN responded_to_missed_numbers \cup {missed_phone}
                        ELSE responded_to_missed_numbers
                 /\ late_callbacks_count' =
                        IF found_any_response /\ found_callback_call
                           /\ SetMin(diffs) > 300
                        THEN late_callbacks_count + 1
                        ELSE late_callbacks_count
                 /\ chat_request_failed' =
                        (chat_request_failed \/ outcome = "http_error")
                 /\ missed_idx' = missed_idx + 1
                 /\ UNCHANGED section_2_pc
    /\ UNCHANGED <<uis_call_history, chat_messages, missed_calls_count,
                   unique_callers, missed_call_details,
                   outgoing_calls_by_number, section_2_report,
                   outsideSection2>>

\* The subtraction and the four report lines.
BuildSection2Report ==
    /\ section_2_pc = "checking"
    /\ missed_idx > Len(missed_call_details)
    /\ section_2_report' =
           [missed_calls_count |-> missed_calls_count,
            unique_callers |-> Cardinality(unique_callers),
            late_callbacks_count |-> late_callbacks_count,
            unresponded_calls_count |->
                unresponded_calls_count_of(missed_calls_count,
                                           responded_to_missed_numbers)]
    /\ section_2_pc' = "returned"
    /\ UNCHANGED <<uis_call_history, chat_messages, missed_calls_count,
                   unique_callers, missed_call_details,
                   outgoing_calls_by_number, missed_idx,
                   responded_to_missed_numbers, late_callbacks_count,
                   chat_request_failed, outsideSection2>>

NextSection2 ==
    \/ UisHistoryFailed
    \/ ClassifyCalls
    \/ CheckMissedCall
    \/ BuildSection2Report

SpecSection2 == InitSection2 /\ [][NextSection2]_vars

\* An outbound call to the number of the missed call, placed after it.
LaterOutboundCall(calls, call) ==
    \E i \in DOMAIN calls :
        /\ calls[i].direction = "out"
        /\ calls[i].contact_phone_number = call.contact_phone_number
        /\ strptime(calls[i].start_time) > strptime(call.start_time)

ChatResponseExists(call) ==
    /\ call.contact_phone_number \in DOMAIN chat_messages
    /\ chat_message_in_window(chat_messages, call.contact_phone_number,
                              strptime(call.start_time))

\* The qualifying missed calls of the log that got neither.
UnansweredMissedCalls ==
    {i \in DOMAIN uis_call_history.all_calls :
        /\ is_missed_call(uis_call_history.all_calls[i])
        /\ ~LaterOutboundCall(uis_call_history.all_calls,
                              uis_call_history.all_calls[i])
        /\ ~ChatResponseExists(uis_call_history.all_calls[i])}

Section2Counted == section_2_pc = "returned" /\ ~chat_request_failed

\* The reported count is never negative.
UnrespondedCountNotNegative ==
    section_2_pc = "returned" =>
        section_2_report.unresponded_calls_count >= 0

\* C29: when section 2 returns its counts (every chat request answered),
\* the reported number of missed calls without callback or chat reply is
\* the number of inbound lost calls longer than 10 s with no later outbound
\* call to the same number and no chat response, also when several missed
\* calls come from one number, and it is never negative.
C29_UnrespondedCountIsExact ==
    /\ Section2Counted =>
           section_2_report.unresponded_calls_count
               = Cardinality(UnansweredMissedCalls)
    /\ UnrespondedCountNotNegative

====
